---- MODULE Spec2Model ----
(***************************************************************************)
(* Early-alert engine of the school management backend                      *)
(* (academico/services/alerta.py, academico/services/asistencia.py,         *)
(* academico/tasks.py, academico/signals.py).                               *)
(*                                                                          *)
(* Time is counted in whole days.  Rows of a table are kept in creation     *)
(* order; the position of a row in its sequence is its primary key.         *)
(***************************************************************************)
EXTENDS Integers, Sequences, FiniteSets, Bags, TLC

\* ------------------------------------------------------------------------
\* Bounds of the model
\* ------------------------------------------------------------------------
Dia0 == 31
HorizonteDias == 60
MaxAlertas == 2
MaxAsistencias == 10
MaxCalificaciones == 5
MaxObservaciones == 2
MaxHorarios == 2
MaxDiasCiclo == 2
MaxCorreos == 3
MaxEscrituras == 3
HorizonteMinutos == 60

\* ------------------------------------------------------------------------
\* Program constants
\* ------------------------------------------------------------------------
VentanaDiasSinDuplicar == 15
DIAS_CIERRE_ALERTA == 60
ALERTA_INASISTENCIA_PORCENTAJE == 20
VentanaDiasAsistencia == 30
PorcentajeRiesgoAlto == 30
\* Grades are counted in tenths: 40 is the grade 4.0.
UMBRAL_NOTA_BAJA == 40
NotaRiesgoAlto == 30
MIN_EVALUACIONES_PARA_ALERTA == 3
DIAS_ATRASO_EVALUACION == 1
\* The default of aprobar_desde and the passing grade of the report, in tenths.
AprobarDesdePorDefecto == 40
AprobadoDesdeReporte == 40
\* The default of max_emails.
MAX_EMAILS_POR_DEFECTO == 50
\* The thresholds of the post_save handlers and the top of the grade scale
\* (tenths).
AusenciasFrecuentes == 5
PorcentajeNotaInsuficiente == 60
NotaMaxima == 70
\* The failed logins that block an account and the minutes the block lasts.
MAX_INTENTOS_FALLIDOS == 5
MINUTOS_BLOQUEO == 30

\* ------------------------------------------------------------------------
\* Value domains
\* ------------------------------------------------------------------------
None == "None"
Estudiantes == {"e1", "e2"}
Cursos == {"c1"}
Asignaturas == {"a1", "a2"}
Docentes == {"d1"}
ORIGEN_CHOICES == {"ASISTENCIA", "NOTAS", "DISCIPLINA", "MIXTO"}
ESTADO_CHOICES == {"ABIERTA", "EN_SEGUIMIENTO", "CERRADA"}
NIVEL_RIESGO_CHOICES == {"BAJO", "MEDIO", "ALTO"}
SinFecha == -1
PasosDias == {15, 60}
Workers == {"w1", "w2"}
ESTADO_ASISTENCIA_CHOICES == {"PRESENTE", "AUSENTE", "ATRASO", "JUSTIFICADO"}
\* The rows of Evaluacion: three evaluations of subject a1 and one of a2, all
\* of course c1.
Evaluaciones == {"ev1", "ev2", "ev3", "ev4"}
evaluacion_curso(ev) == "c1"
evaluacion_asignatura(ev) == IF ev = "ev4" THEN "a2" ELSE "a1"
Notas == {20, 30, 40}
SinNota == 0
SinLlamada == <<>>
GRAVEDAD_CHOICES == {"BAJA", "MEDIA", "ALTA"}
\* Scheduling: courses, teachers, rooms, time blocks and periods.
CursosHorario == {"c1", "c2"}
Profesores == {"d1", "d2"}
Salas == {"s1", "s2"}
Bloques == {"b1", "b2"}
Periodos == {"p1", "p2"}
\* Evaluations: the teacher of each, the roster of its course in query
\* order, the guardians of each student and their addresses, and the users
\* who publish (None: no user given).
evaluacion_docente(ev) == "d1"
curso_estudiantes(curso) == <<"e1", "e2">>
estudiante_apoderados(est) == IF est = "e1" THEN <<"ap1", "ap2">> ELSE <<>>
apoderado_email(apoderado) == IF apoderado = "ap1" THEN "ap1@correo.cl" ELSE ""
Publicadores == {None, "adm"}
\* The rows of Evaluacion in the order a query returns them.
OrdenEvaluaciones == <<"ev1", "ev2", "ev3", "ev4">>
\* Every evaluation belongs to period p1; students in the order of a query.
evaluacion_periodo(ev) == "p1"
OrdenEstudiantes == <<"e1", "e2">>
\* Courses and subjects in the order of a query.
OrdenCursos == <<"c1">>
OrdenAsignaturas == <<"a1", "a2">>

VARIABLES
    now,             \* timezone.now(), in days
    alertas,         \* table AlertaTemprana
    notificaciones,  \* table Notification
    emails,          \* table EmailQueue
    jefe_curso,      \* Curso.jefe_curso, per course
    email,           \* User.email, per teacher ("" when not registered)
    nota_aprobacion, \* the passing grade the institution recomputes averages with
    curso_periodo,   \* Curso.periodo, per course
    tabla_user,      \* the row of User of the account that logs in
    reloj,           \* timezone.now() as the login reads it, in minutes
    asistencias,     \* table Asistencia, a bag of rows
    calificaciones,  \* table Calificacion, a set of rows
    observaciones,   \* table Observacion
    pc,              \* per worker: where it stands inside the alert service
    local,           \* per worker: the local variables of its call
    ult,             \* the operation that ran last and what it returned
    horarios,        \* table HorarioCurso
    tabla_evaluacion,   \* table Evaluacion: the mutable fields of each row
    promedios_finales,  \* table PromedioFinal
    reportes         \* table ReporteNotasPeriodo

\* The configuration of courses and users, which no operation writes.
config == <<jefe_curso, email, nota_aprobacion, curso_periodo, tabla_user, reloj>>
\* The records the risk triggers read.
registros == <<asistencias, calificaciones, observaciones>>
\* The workers running the alert service step by step.
workers == <<pc, local>>

\* The tables of scheduling, evaluations and final averages, which the alert
\* engine neither reads nor writes.
academia == <<horarios, tabla_evaluacion, promedios_finales, reportes>>

vars == <<now, alertas, notificaciones, emails, config, registros, workers, ult,
          academia>>

\* ------------------------------------------------------------------------
\* academico/services/alerta.py
\* ------------------------------------------------------------------------

\* The three tables the alert service writes, with the value it returns
\* (the primary key of an alert, 0 for None).
\* A row of User as it is created: no failed login, not blocked.
UsuarioNuevo == [failed_attempts |-> 0, is_blocked |-> FALSE, blocked_until |-> SinFecha]

Tablas == [alertas |-> alertas, notificaciones |-> notificaciones,
           emails |-> emails, ret |-> 0]

NivelNotificacion(nivel_riesgo) ==
    IF nivel_riesgo = "ALTO" THEN "URGENT"
    ELSE IF nivel_riesgo = "MEDIO" THEN "WARN"
    ELSE "INFO"

enviar_notificaciones_sin_mirar_email(db, alerta) ==
    LET jefe == IF alerta.curso # None THEN jefe_curso[alerta.curso] ELSE None
        level == NivelNotificacion(alerta.nivel_riesgo)
    IN  IF jefe = None THEN db
        ELSE [db EXCEPT !.notificaciones =
                           Append(@, [user |-> jefe,
                                      title |-> "Nueva alerta temprana",
                                      level |-> level]),
                        !.emails =
                           Append(@, [destinatario |-> email[jefe],
                                      asunto |-> "Nueva alerta temprana de estudiante",
                                      estado |-> "PENDIENTE"])]

enviar_notificaciones_alerta(db, alerta) ==
    LET jefe == IF alerta.curso # None THEN jefe_curso[alerta.curso] ELSE None
        level == NivelNotificacion(alerta.nivel_riesgo)
    IN  IF jefe = None THEN db
        ELSE LET db1 == [db EXCEPT !.notificaciones =
                            Append(@, [user |-> jefe,
                                       title |-> "Nueva alerta temprana",
                                       level |-> level])]
             IN  IF email[jefe] = "" THEN db1
                 ELSE [db1 EXCEPT !.emails =
                          Append(@, [destinatario |-> email[jefe],
                                     asunto |-> "Nueva alerta temprana de estudiante",
                                     estado |-> "PENDIENTE"])]

ExisteAlertaRecienteDeCualquierEstado(tabla, estudiante, curso, asignatura, origen, limite) ==
    \E i \in DOMAIN tabla :
        /\ tabla[i].estudiante = estudiante
        /\ tabla[i].curso = curso
        /\ tabla[i].asignatura = asignatura
        /\ tabla[i].origen = origen
        /\ tabla[i].fecha_creacion >= limite

ExisteAlertaAbiertaRecienteSinBorde(tabla, estudiante, curso, asignatura, origen, limite) ==
    \E i \in DOMAIN tabla :
        /\ tabla[i].estudiante = estudiante
        /\ tabla[i].curso = curso
        /\ tabla[i].asignatura = asignatura
        /\ tabla[i].origen = origen
        /\ tabla[i].estado = "ABIERTA"
        /\ tabla[i].fecha_creacion > limite

ExisteAlertaAbiertaReciente(tabla, estudiante, curso, asignatura, origen, limite) ==
    \E i \in DOMAIN tabla :
        /\ tabla[i].estudiante = estudiante
        /\ tabla[i].curso = curso
        /\ tabla[i].asignatura = asignatura
        /\ tabla[i].origen = origen
        /\ tabla[i].estado = "ABIERTA"
        /\ tabla[i].fecha_creacion >= limite

crear_alerta_notifica_siempre(db, ahora, estudiante, curso, asignatura, origen, nivel_riesgo, creada_por, ventana_dias_sin_duplicar) ==
    LET limite == ahora - ventana_dias_sin_duplicar
        existe == ExisteAlertaAbiertaReciente(db.alertas, estudiante, curso,
                                              asignatura, origen, limite)
        alerta == [estudiante |-> estudiante, curso |-> curso,
                   asignatura |-> asignatura, origen |-> origen,
                   nivel_riesgo |-> nivel_riesgo, estado |-> "ABIERTA",
                   creada_por |-> creada_por, fecha_creacion |-> ahora,
                   fecha_cierre |-> SinFecha]
    IN  IF existe THEN enviar_notificaciones_alerta([db EXCEPT !.ret = 0], alerta)
        ELSE LET db1 == [db EXCEPT !.alertas = Append(@, alerta),
                                   !.ret = Len(db.alertas) + 1]
             IN  enviar_notificaciones_alerta(db1, alerta)

crear_alerta_temprana_automatizada(db, ahora, estudiante, curso, asignatura, origen, nivel_riesgo, creada_por, ventana_dias_sin_duplicar) ==
    LET limite == ahora - ventana_dias_sin_duplicar
        existe == ExisteAlertaAbiertaReciente(db.alertas, estudiante, curso,
                                              asignatura, origen, limite)
        alerta == [estudiante |-> estudiante, curso |-> curso,
                   asignatura |-> asignatura, origen |-> origen,
                   nivel_riesgo |-> nivel_riesgo, estado |-> "ABIERTA",
                   creada_por |-> creada_por, fecha_creacion |-> ahora,
                   fecha_cierre |-> SinFecha]
    IN  IF existe THEN [db EXCEPT !.ret = 0]
        ELSE LET db1 == [db EXCEPT !.alertas = Append(@, alerta),
                                   !.ret = Len(db.alertas) + 1]
             IN  enviar_notificaciones_alerta(db1, alerta)

cerrar_alerta_sin_fecha(db, ahora, i, usuario) ==
    IF db.alertas[i].estado = "CERRADA" THEN [db EXCEPT !.ret = i]
    ELSE LET db1 == [db EXCEPT !.alertas[i].estado = "CERRADA", !.ret = i]
         IN  IF usuario = None THEN db1
             ELSE [db1 EXCEPT !.notificaciones =
                      Append(@, [user |-> usuario, title |-> "Alerta cerrada",
                                 level |-> "INFO"])]

cerrar_alerta_sin_guarda(db, ahora, i, usuario) ==
    LET db1 == [db EXCEPT !.alertas[i].estado = "CERRADA",
                          !.alertas[i].fecha_cierre = ahora,
                          !.ret = i]
    IN  IF usuario = None THEN db1
        ELSE [db1 EXCEPT !.notificaciones =
                 Append(@, [user |-> usuario, title |-> "Alerta cerrada",
                            level |-> "INFO"])]

cerrar_alerta(db, ahora, i, usuario) ==
    IF db.alertas[i].estado = "CERRADA" THEN [db EXCEPT !.ret = i]
    ELSE LET db1 == [db EXCEPT !.alertas[i].estado = "CERRADA",
                               !.alertas[i].fecha_cierre = ahora,
                               !.ret = i]
         IN  IF usuario = None THEN db1
             ELSE [db1 EXCEPT !.notificaciones =
                      Append(@, [user |-> usuario, title |-> "Alerta cerrada",
                                 level |-> "INFO"])]

\* ------------------------------------------------------------------------
\* academico/services/asistencia.py
\* ------------------------------------------------------------------------

RECURSIVE SumaCopias(_, _)
SumaCopias(bolsa, filas) ==
    IF filas = {} THEN 0
    ELSE LET f == CHOOSE x \in filas : TRUE
         IN  CopiesIn(f, bolsa) + SumaCopias(bolsa, filas \ {f})

\* The statistics are kept as counts; a percentage x * 100.0 / total is
\* compared with a bound b as x * 100 against b * total, which is what the
\* comparison of the floats decides for counts of this size.
calcular_ausentismo_estudiante(tabla, estudiante, curso, fecha_desde, fecha_hasta) ==
    LET qs == {f \in BagToSet(tabla) :
                  /\ f.estudiante = estudiante
                  /\ (curso # None => f.curso = curso)
                  /\ (fecha_desde # SinFecha => f.fecha >= fecha_desde)
                  /\ (fecha_hasta # SinFecha => f.fecha <= fecha_hasta)}
        total == SumaCopias(tabla, qs)
        ausencias == SumaCopias(tabla, {f \in qs : f.estado \in {"AUSENTE", "JUSTIFICADO"}})
        atrasos == SumaCopias(tabla, {f \in qs : f.estado = "ATRASO"})
    IN  IF total = 0
        THEN [total_registros |-> 0, total_ausencias |-> 0, total_atrasos |-> 0]
        ELSE [total_registros |-> total, total_ausencias |-> ausencias,
              total_atrasos |-> atrasos]

\* stats["porcentaje_ausencia"] < cota
PorcentajeAusenciaMenor(stats, cota) ==
    stats.total_ausencias * 100 < cota * stats.total_registros

\* The risk level of an attendance alert.
NivelPorAsistenciaEstricto(stats) ==
    IF stats.total_ausencias * 100 > PorcentajeRiesgoAlto * stats.total_registros
    THEN "ALTO" ELSE "MEDIO"

NivelPorAsistencia(stats) ==
    IF ~PorcentajeAusenciaMenor(stats, PorcentajeRiesgoAlto) THEN "ALTO" ELSE "MEDIO"

generar_alerta_sin_minimo(db, tabla, ahora, estudiante, curso, porcentaje_umbral, ventana_dias, creada_por) ==
    LET hoy == ahora
        fecha_desde == hoy - ventana_dias
        stats == calcular_ausentismo_estudiante(tabla, estudiante, curso, fecha_desde, hoy)
    IN  IF PorcentajeAusenciaMenor(stats, porcentaje_umbral) THEN [db EXCEPT !.ret = 0]
        ELSE crear_alerta_temprana_automatizada(db, ahora, estudiante, curso, None, "ASISTENCIA", NivelPorAsistencia(stats), creada_por, 15)

generar_alerta_por_asistencia(db, tabla, ahora, estudiante, curso, porcentaje_umbral, ventana_dias, creada_por) ==
    LET hoy == ahora
        fecha_desde == hoy - ventana_dias
        stats == calcular_ausentismo_estudiante(tabla, estudiante, curso, fecha_desde, hoy)
    IN  IF stats.total_registros = 0 THEN [db EXCEPT !.ret = 0]
        ELSE IF PorcentajeAusenciaMenor(stats, porcentaje_umbral) THEN [db EXCEPT !.ret = 0]
        ELSE crear_alerta_temprana_automatizada(db, ahora, estudiante, curso, None, "ASISTENCIA", NivelPorAsistencia(stats), creada_por, 15)

\* ------------------------------------------------------------------------
\* academico/tasks.py: cerrar_alertas_viejas_task
\* ------------------------------------------------------------------------

AlertaViejaSinBorde(alerta, limite_antiguedad) ==
    alerta.estado = "ABIERTA" /\ alerta.fecha_creacion < limite_antiguedad

AlertaViejaCualquierEstado(alerta, limite_antiguedad) ==
    alerta.fecha_creacion <= limite_antiguedad

\* The queryset filter of the sweep.
AlertaVieja(alerta, limite_antiguedad) ==
    alerta.estado = "ABIERTA" /\ alerta.fecha_creacion <= limite_antiguedad

\* The loop of the sweep over the rows selected in `viejas`, from row k down.
RECURSIVE CerrarSeleccionadas(_, _, _, _)
CerrarSeleccionadas(db, ahora, viejas, k) ==
    IF k = 0 THEN db
    ELSE CerrarSeleccionadas(
             IF k \in viejas THEN cerrar_alerta(db, ahora, k, None) ELSE db,
             ahora, viejas, k - 1)

cerrar_alertas_viejas_task(db, ahora) ==
    LET limite_antiguedad == ahora - DIAS_CIERRE_ALERTA
        viejas == {i \in DOMAIN db.alertas :
                      AlertaVieja(db.alertas[i], limite_antiguedad)}
    IN  CerrarSeleccionadas(db, ahora, viejas, Len(db.alertas))

\* ------------------------------------------------------------------------
\* academico/tasks.py: detectar_alertas_tempranas_task
\* ------------------------------------------------------------------------

\* The (estudiante, curso) pairs with attendance rows of the last 30 days.
ParesConAsistencia(tabla, hoy) ==
    {<<f.estudiante, f.curso>> :
        f \in {g \in BagToSet(tabla) :
                  g.fecha >= hoy - VentanaDiasAsistencia /\ g.fecha <= hoy}}

\* The first loop of the task; the rows come in an order the database picks,
\* which decides nothing but the primary keys of the alerts.
RECURSIVE AlertasPorAsistencia(_, _, _, _)
AlertasPorAsistencia(db, tabla, ahora, pares) ==
    IF pares = {} THEN db
    ELSE LET par == CHOOSE x \in pares : TRUE
         IN  AlertasPorAsistencia(
                 generar_alerta_por_asistencia(db, tabla, ahora, par[1], par[2],
                     ALERTA_INASISTENCIA_PORCENTAJE, VentanaDiasAsistencia, None),
                 tabla, ahora, pares \ {par})

NotasDelGrupo(tabla, grupo) ==
    {k \in tabla : /\ k.estudiante = grupo[1]
                   /\ evaluacion_curso(k.evaluacion) = grupo[2]
                   /\ evaluacion_asignatura(k.evaluacion) = grupo[3]}

RECURSIVE SumaNotas(_)
SumaNotas(filas) ==
    IF filas = {} THEN 0
    ELSE LET k == CHOOSE x \in filas : TRUE
         IN  k.nota + SumaNotas(filas \ {k})

\* promedio < cota, for the average of the rows of a group
PromedioMenor(filas, cota) == SumaNotas(filas) < cota * Cardinality(filas)

GrupoConNotasBajasSinMinimo(tabla, grupo) ==
    PromedioMenor(NotasDelGrupo(tabla, grupo), UMBRAL_NOTA_BAJA)

\* The two filters on the annotated groups.
GrupoConNotasBajas(tabla, grupo) ==
    /\ Cardinality(NotasDelGrupo(tabla, grupo)) >= MIN_EVALUACIONES_PARA_ALERTA
    /\ PromedioMenor(NotasDelGrupo(tabla, grupo), UMBRAL_NOTA_BAJA)

\* values(...).annotate(...).filter(...): the groups the second loop visits.
GruposConNotasBajas(tabla) ==
    {g \in {<<k.estudiante, evaluacion_curso(k.evaluacion),
              evaluacion_asignatura(k.evaluacion)>> : k \in tabla} :
        GrupoConNotasBajas(tabla, g)}

NivelPorNotasInclusivo(filas) ==
    IF SumaNotas(filas) <= NotaRiesgoAlto * Cardinality(filas) THEN "ALTO" ELSE "MEDIO"

NivelPorNotas(filas) ==
    IF PromedioMenor(filas, NotaRiesgoAlto) THEN "ALTO" ELSE "MEDIO"

RECURSIVE AlertasPorNotas(_, _, _, _)
AlertasPorNotas(db, tabla, ahora, grupos) ==
    IF grupos = {} THEN db
    ELSE LET g == CHOOSE x \in grupos : TRUE
         IN  AlertasPorNotas(
                 crear_alerta_temprana_automatizada(db, ahora, g[1], g[2], g[3],
                     "NOTAS", NivelPorNotas(NotasDelGrupo(tabla, g)), None, 15),
                 tabla, ahora, grupos \ {g})

detectar_alertas_tempranas_task(db, tabla_asistencia, tabla_calificacion, ahora) ==
    LET db1 == AlertasPorAsistencia(db, tabla_asistencia, ahora,
                                    ParesConAsistencia(tabla_asistencia, ahora))
    IN  [AlertasPorNotas(db1, tabla_calificacion, ahora,
                         GruposConNotasBajas(tabla_calificacion))
            EXCEPT !.ret = 0]

\* ------------------------------------------------------------------------
\* academico/services/horario.py
\* ------------------------------------------------------------------------

\* A HorarioCurso object; its id is its position in the table, 0 (None) before
\* it is saved.
HorarioCurso(curso, asignatura, docente, sala, bloque, periodo, es_rotativo) ==
    [curso |-> curso, asignatura |-> asignatura, docente |-> docente, sala |-> sala,
     bloque |-> bloque, periodo |-> periodo, es_rotativo |-> es_rotativo]

\* qs_base: the rows of the period and block of `horario`, without the row
\* whose id is that of `horario`.
QsBaseSinExcluir(tabla, horario, id) ==
    {j \in DOMAIN tabla : /\ tabla[j].periodo = horario.periodo
                          /\ tabla[j].bloque = horario.bloque}

QsBase(tabla, horario, id) ==
    {j \in DOMAIN tabla : /\ tabla[j].periodo = horario.periodo
                          /\ tabla[j].bloque = horario.bloque
                          /\ j # id}

obtener_conflictos_horario(tabla, horario, id) ==
    LET qs_base == QsBase(tabla, horario, id)
    IN  [sala |-> IF horario.sala # None
                  THEN {j \in qs_base : tabla[j].sala = horario.sala} ELSE {},
         docente |-> IF horario.docente # None
                     THEN {j \in qs_base : tabla[j].docente = horario.docente} ELSE {},
         curso |-> {j \in qs_base : tabla[j].curso = horario.curso}]

\* TRUE when validar_horario_sin_conflictos returns, FALSE when it raises
\* ValidationError.
validar_horario_sin_conflictos(tabla, horario, id) ==
    LET conflictos == obtener_conflictos_horario(tabla, horario, id)
    IN  conflictos.sala = {} /\ conflictos.docente = {} /\ conflictos.curso = {}

\* Model.full_clean and the unique_together of the table: the fields that
\* are NOT NULL are set and no other row has the same (curso, asignatura,
\* docente, sala, bloque, periodo).
full_clean(tabla, horario, id) ==
    /\ horario.sala # None /\ horario.docente # None
    /\ \A j \in DOMAIN tabla :
          j # id => ~(/\ tabla[j].curso = horario.curso
                      /\ tabla[j].asignatura = horario.asignatura
                      /\ tabla[j].docente = horario.docente
                      /\ tabla[j].sala = horario.sala
                      /\ tabla[j].bloque = horario.bloque
                      /\ tabla[j].periodo = horario.periodo)

\* The table after crear_horario_curso; the table as it was when the call
\* raises ValidationError.
crear_horario_curso(tabla, curso, asignatura, docente, sala, bloque, periodo, es_rotativo, validar_conflictos) ==
    LET horario == HorarioCurso(curso, asignatura, docente, sala, bloque, periodo,
                                es_rotativo)
    IN  IF validar_conflictos /\ ~validar_horario_sin_conflictos(tabla, horario, 0)
        THEN tabla
        ELSE IF ~full_clean(tabla, horario, 0) THEN tabla
        ELSE Append(tabla, horario)

duplicar_horario_como_rotativo(tabla, i, nuevo_bloque) ==
    LET horario == tabla[i]
        nuevo == HorarioCurso(horario.curso, horario.asignatura, horario.docente,
                              horario.sala, nuevo_bloque, horario.periodo, TRUE)
    IN  IF ~validar_horario_sin_conflictos(tabla, nuevo, 0) THEN tabla
        ELSE IF ~full_clean(tabla, nuevo, 0) THEN tabla
        ELSE Append(tabla, nuevo)

\* ------------------------------------------------------------------------
\* academico/services/evaluacion.py
\* ------------------------------------------------------------------------

\* The tables the evaluation service writes, with what the call returned
\* (1: returned, 0: raised).
TablasEvaluacion == [tabla_evaluacion |-> tabla_evaluacion,
                     notificaciones |-> notificaciones,
                     emails |-> emails, ret |-> 1]

\* TRUE when the dates pass, FALSE when the call raises. A stored
\* fecha_publicacion is a date, on which .date() raises AttributeError.
validar_fechas_evaluacion(evaluacion) ==
    /\ ~(evaluacion.fecha_limite_publicacion < evaluacion.fecha_evaluacion)
    /\ evaluacion.fecha_publicacion = SinFecha

actualizar_estado_sin_guarda(db, ev, referencia_fecha, ahora) ==
    LET evaluacion == db.tabla_evaluacion[ev]
        ref == IF referencia_fecha # SinFecha THEN referencia_fecha ELSE ahora
    IN  IF /\ evaluacion.fecha_limite_publicacion < ref
           /\ evaluacion.estado # "ATRASADA"
        THEN [db EXCEPT !.tabla_evaluacion[ev].estado = "ATRASADA"]
        ELSE db

actualizar_estado_con_borde(db, ev, referencia_fecha, ahora) ==
    LET evaluacion == db.tabla_evaluacion[ev]
        ref == IF referencia_fecha # SinFecha THEN referencia_fecha ELSE ahora
    IN  IF evaluacion.estado = "PUBLICADA" THEN db
        ELSE IF /\ evaluacion.fecha_limite_publicacion <= ref
                /\ evaluacion.estado # "ATRASADA"
        THEN [db EXCEPT !.tabla_evaluacion[ev].estado = "ATRASADA"]
        ELSE db

actualizar_estado_por_atraso(db, ev, referencia_fecha, ahora) ==
    LET evaluacion == db.tabla_evaluacion[ev]
        ref == IF referencia_fecha # SinFecha THEN referencia_fecha ELSE ahora
    IN  IF evaluacion.estado = "PUBLICADA" THEN db
        ELSE IF /\ evaluacion.fecha_limite_publicacion < ref
                /\ evaluacion.estado # "ATRASADA"
        THEN [db EXCEPT !.tabla_evaluacion[ev].estado = "ATRASADA"]
        ELSE db

\* The mails to the guardians of the students of a roster who have an
\* address, in the order of the two loops.
RECURSIVE CorreosApoderados(_)
CorreosApoderados(estudiantes) ==
    IF estudiantes = <<>> THEN <<>>
    ELSE LET apoderados == estudiante_apoderados(Head(estudiantes))
             con_email == SelectSeq(apoderados, LAMBDA ap : apoderado_email(ap) # "")
         IN  [i \in 1..Len(con_email) |->
                 [destinatario |-> apoderado_email(con_email[i]),
                  asunto |-> "Evaluacion publicada",
                  estado |-> "PENDIENTE"]]
             \o CorreosApoderados(Tail(estudiantes))

NotificacionesDePublicacion(ev, usuario, notificar_estudiantes) ==
    LET estudiantes == curso_estudiantes(evaluacion_curso(ev))
        destinatario_docente == IF usuario # None THEN usuario
                                ELSE evaluacion_docente(ev)
    IN  (IF destinatario_docente # None
         THEN <<[user |-> destinatario_docente, title |-> "Evaluacion publicada",
                 message |-> ev, level |-> "INFO"]>>
         ELSE <<>>)
        \o (IF notificar_estudiantes
            THEN [i \in 1..Len(estudiantes) |->
                     [user |-> estudiantes[i], title |-> "Nueva evaluacion publicada",
                      message |-> ev, level |-> "INFO"]]
            ELSE <<>>)

publicar_evaluacion_sin_guarda(db, ev, usuario, notificar_estudiantes, notificar_apoderados, ahora) ==
    LET evaluacion == db.tabla_evaluacion[ev]
    IN  IF ~(evaluacion.fecha_limite_publicacion < evaluacion.fecha_evaluacion)
        THEN [tabla_evaluacion |->
                  [db.tabla_evaluacion EXCEPT ![ev].estado = "PUBLICADA",
                                              ![ev].fecha_publicacion = ahora],
              notificaciones |->
                  db.notificaciones
                  \o NotificacionesDePublicacion(ev, usuario, notificar_estudiantes),
              emails |->
                  IF notificar_apoderados
                  THEN db.emails
                       \o CorreosApoderados(curso_estudiantes(evaluacion_curso(ev)))
                  ELSE db.emails,
              ret |-> 1]
        ELSE [db EXCEPT !.ret = 0]

publicar_evaluacion(db, ev, usuario, notificar_estudiantes, notificar_apoderados, ahora) ==
    LET evaluacion == db.tabla_evaluacion[ev]
    IN  IF evaluacion.estado = "PUBLICADA" THEN [db EXCEPT !.ret = 1]
        ELSE IF ~validar_fechas_evaluacion(evaluacion) THEN [db EXCEPT !.ret = 0]
        ELSE [tabla_evaluacion |->
                  [db.tabla_evaluacion EXCEPT ![ev].estado = "PUBLICADA",
                                              ![ev].fecha_publicacion = ahora],
              notificaciones |->
                  db.notificaciones
                  \o NotificacionesDePublicacion(ev, usuario, notificar_estudiantes),
              emails |->
                  IF notificar_apoderados
                  THEN db.emails
                       \o CorreosApoderados(curso_estudiantes(evaluacion_curso(ev)))
                  ELSE db.emails,
              ret |-> 1]

\* ------------------------------------------------------------------------
\* Final averages: academico/services/evaluacion.py and reporte.py
\* ------------------------------------------------------------------------

\* The grades of a student in the evaluations of a course, subject and period.
NotasDelPeriodo(tabla, estudiante, curso, asignatura, periodo) ==
    {k \in tabla : /\ k.estudiante = estudiante
                   /\ evaluacion_curso(k.evaluacion) = curso
                   /\ evaluacion_asignatura(k.evaluacion) = asignatura
                   /\ evaluacion_periodo(k.evaluacion) = periodo}

\* promedio >= cota, for the average of a non-empty set of grades.
PromedioMayorOIgual(filas, cota) == SumaNotas(filas) >= cota * Cardinality(filas)

\* The average suma / cantidad of grades in tenths as PromedioFinal.promedio
\* stores it: in hundredths, rounded half to even.
PromedioGuardado(suma, cantidad) ==
    LET q == (10 * suma) \div cantidad
        r == (10 * suma) % cantidad
    IN  IF 2 * r > cantidad THEN q + 1
        ELSE IF 2 * r < cantidad THEN q
        ELSE IF q % 2 = 1 THEN q + 1 ELSE q

crear_siempre(tabla, estudiante, curso, asignatura, periodo, promedio, aprobado) ==
    Append(tabla, [estudiante |-> estudiante, curso |-> curso,
                   asignatura |-> asignatura, periodo |-> periodo,
                   promedio |-> promedio, aprobado |-> aprobado])

\* PromedioFinal.objects.update_or_create; with several rows of the key the
\* call raises and the table is left as it was.
update_or_create(tabla, estudiante, curso, asignatura, periodo, promedio, aprobado) ==
    LET existentes == {i \in DOMAIN tabla : /\ tabla[i].estudiante = estudiante
                                            /\ tabla[i].curso = curso
                                            /\ tabla[i].asignatura = asignatura
                                            /\ tabla[i].periodo = periodo}
    IN  IF existentes = {}
        THEN Append(tabla, [estudiante |-> estudiante, curso |-> curso,
                            asignatura |-> asignatura, periodo |-> periodo,
                            promedio |-> promedio, aprobado |-> aprobado])
        ELSE IF Cardinality(existentes) = 1
        THEN [i \in DOMAIN tabla |->
                 IF i \in existentes
                 THEN [tabla[i] EXCEPT !.promedio = promedio, !.aprobado = aprobado]
                 ELSE tabla[i]]
        ELSE tabla

\* The loop over the students: those without grades in scope are skipped.
RECURSIVE PromediosDeEstudiantes(_, _, _, _, _, _, _)
PromediosDeEstudiantes(tabla, notas, estudiantes, curso, asignatura, periodo, aprobar_desde) ==
    IF estudiantes = <<>> THEN tabla
    ELSE LET estudiante == Head(estudiantes)
             filas == NotasDelPeriodo(notas, estudiante, curso, asignatura, periodo)
         IN  PromediosDeEstudiantes(
                 IF filas = {} THEN tabla
                 ELSE update_or_create(tabla, estudiante, curso, asignatura, periodo,
                          PromedioGuardado(SumaNotas(filas), Cardinality(filas)),
                          PromedioMayorOIgual(filas, aprobar_desde)),
                 notas, Tail(estudiantes), curso, asignatura, periodo, aprobar_desde)

recalcular_promedios_finales_curso_asignatura(tabla, notas, curso, asignatura, periodo, aprobar_desde) ==
    PromediosDeEstudiantes(tabla, notas, curso_estudiantes(curso), curso, asignatura,
                           periodo, aprobar_desde)

ReporteCreadoSiempre(tabla, curso, asignatura, periodo, generado_por) ==
    Append(tabla, [curso |-> curso, asignatura |-> asignatura, periodo |-> periodo,
                   generado_por |-> generado_por])

\* ReporteNotasPeriodo.objects.get_or_create, then generado_por is set when
\* one is given. With several rows of the key the get raises and the
\* transaction leaves the table as it was.
ReporteGuardado(tabla, curso, asignatura, periodo, generado_por) ==
    LET existentes == {i \in DOMAIN tabla : /\ tabla[i].curso = curso
                                            /\ tabla[i].asignatura = asignatura
                                            /\ tabla[i].periodo = periodo}
    IN  IF existentes = {}
        THEN Append(tabla, [curso |-> curso, asignatura |-> asignatura,
                            periodo |-> periodo, generado_por |-> generado_por])
        ELSE IF Cardinality(existentes) = 1 /\ generado_por # None
        THEN [i \in DOMAIN tabla |->
                 IF i \in existentes
                 THEN [tabla[i] EXCEPT !.generado_por = generado_por]
                 ELSE tabla[i]]
        ELSE tabla

\* The tables the report writes, with what it returned (1: the report, 0: None).
generar_reporte_notas_curso_asignatura_periodo(tabla, informes, notas, curso, asignatura, periodo, generado_por) ==
    LET con_notas == SelectSeq(OrdenEstudiantes,
                        LAMBDA e : NotasDelPeriodo(notas, e, curso, asignatura,
                                                   periodo) # {})
    IN  IF con_notas = <<>>
        THEN [promedios_finales |-> tabla, reportes |-> informes, ret |-> 0]
        ELSE [promedios_finales |->
                  PromediosDeEstudiantes(tabla, notas, con_notas, curso, asignatura,
                                         periodo, AprobadoDesdeReporte),
              reportes |-> ReporteGuardado(informes, curso, asignatura, periodo,
                                           generado_por),
              ret |-> 1]

\* The loop over the subjects of a course that have grades in the period:
\* one report each.
RECURSIVE ReportesDeAsignaturas(_, _, _, _, _, _)
ReportesDeAsignaturas(db, notas, curso, asignaturas, periodo, generado_por) ==
    IF asignaturas = <<>> THEN db
    ELSE ReportesDeAsignaturas(
             generar_reporte_notas_curso_asignatura_periodo(db.promedios_finales,
                 db.reportes, notas, curso, Head(asignaturas), periodo, generado_por),
             notas, curso, Tail(asignaturas), periodo, generado_por)

\* The subjects with a grade in an evaluation of the course and the period.
AsignaturasConNotas(notas, curso, periodo) ==
    SelectSeq(OrdenAsignaturas,
              LAMBDA a : \E k \in notas :
                            /\ evaluacion_curso(k.evaluacion) = curso
                            /\ evaluacion_periodo(k.evaluacion) = periodo
                            /\ evaluacion_asignatura(k.evaluacion) = a)

RECURSIVE ReportesDeCursos(_, _, _, _, _)
ReportesDeCursos(db, notas, cursos, periodo, generado_por) ==
    IF cursos = <<>> THEN db
    ELSE ReportesDeCursos(
             ReportesDeAsignaturas(db, notas, Head(cursos),
                 AsignaturasConNotas(notas, Head(cursos), periodo), periodo,
                 generado_por),
             notas, Tail(cursos), periodo, generado_por)

\* Curso.objects.filter(periodo=periodo): the courses of the period.
CursosDelPeriodo(periodo) ==
    SelectSeq(OrdenCursos, LAMBDA c : curso_periodo[c] = periodo)

generar_reportes_para_periodo(tabla, informes, notas, periodo, generado_por) ==
    ReportesDeCursos([promedios_finales |-> tabla, reportes |-> informes, ret |-> 0],
                     notas, CursosDelPeriodo(periodo), periodo, generado_por)

\* ------------------------------------------------------------------------
\* academico/tasks.py: the mail queue
\* ------------------------------------------------------------------------

\* A row of EmailQueue as it is created, with the time it may be sent from
\* (SinFecha: none). intentos is not a column: it counts the calls of
\* send_mail made for the row.
CorreoEnCola(destinatario, asunto, enviar_despues_de) ==
    [destinatario |-> destinatario, asunto |-> asunto, estado |-> "PENDIENTE",
     ultimo_error |-> "", enviar_despues_de |-> enviar_despues_de, intentos |-> 0]

\* EmailQueue.objects.filter(estado="PENDIENTE")[:max_emails], newest first:
\* rows are kept in the order of their creation.
Pendientes(tabla) == {i \in DOMAIN tabla : tabla[i].estado = "PENDIENTE"}

SeleccionPendientes(tabla, max_emails) ==
    {i \in Pendientes(tabla) :
        Cardinality({j \in Pendientes(tabla) : j > i}) < max_emails}

\* The task when the sends of the rows in `fallan` raise.
procesar_hasta_el_primer_fallo(tabla, max_emails, fallan) ==
    LET seleccion == SeleccionPendientes(tabla, max_emails)
    IN  [i \in DOMAIN tabla |->
            IF i \in seleccion /\ ~(\E j \in seleccion \cap fallan : j > i)
            THEN [tabla[i] EXCEPT
                     !.estado = IF i \in fallan THEN "FALLIDO" ELSE "ENVIADO",
                     !.ultimo_error = IF i \in fallan THEN "SMTPException" ELSE "",
                     !.intentos = @ + 1]
            ELSE tabla[i]]

procesar_email_queue_task(tabla, max_emails, fallan) ==
    LET seleccion == SeleccionPendientes(tabla, max_emails)
    IN  [i \in DOMAIN tabla |->
            IF i \in seleccion
            THEN [tabla[i] EXCEPT
                     !.estado = IF i \in fallan THEN "FALLIDO" ELSE "ENVIADO",
                     !.ultimo_error = IF i \in fallan THEN "SMTPException" ELSE "",
                     !.intentos = @ + 1]
            ELSE tabla[i]]

\* ------------------------------------------------------------------------
\* academico/tasks.py: the control of overdue evaluations
\* ------------------------------------------------------------------------

_notificar_evaluacion_atrasada(db, ev) ==
    LET docente == evaluacion_docente(ev)
    IN  IF docente = None THEN db
        ELSE LET db1 == [db EXCEPT !.notificaciones =
                            Append(@, [user |-> docente,
                                       title |-> "Evaluacion atrasada",
                                       message |-> ev, level |-> "WARN"])]
             IN  IF email[docente] = "" THEN db1
                 ELSE [db1 EXCEPT !.emails =
                          Append(@, [destinatario |-> email[docente],
                                     asunto |-> "Evaluacion atrasada",
                                     estado |-> "PENDIENTE"])]

\* One pass of the loop of the task over the evaluation ev.
ControlarAtrasoNotificandoSiempre(db, ev, ahora) ==
    LET db1 == actualizar_estado_por_atraso(db, ev, ahora, ahora)
    IN  IF db1.tabla_evaluacion[ev].estado = "ATRASADA"
        THEN _notificar_evaluacion_atrasada(db1, ev)
        ELSE db1

ControlarAtraso(db, ev, ahora) ==
    LET estado_anterior == db.tabla_evaluacion[ev].estado
        db1 == actualizar_estado_por_atraso(db, ev, ahora, ahora)
    IN  IF estado_anterior # "ATRASADA" /\ db1.tabla_evaluacion[ev].estado = "ATRASADA"
        THEN _notificar_evaluacion_atrasada(db1, ev)
        ELSE db1

\* The evaluations the task selects, in query order.
EvaluacionesPorControlar(tabla, ahora) ==
    SelectSeq(OrdenEvaluaciones,
              LAMBDA ev : /\ tabla[ev].fecha_limite_publicacion
                                <= ahora - DIAS_ATRASO_EVALUACION
                          /\ tabla[ev].estado # "PUBLICADA")

RECURSIVE ControlarAtrasos(_, _, _)
ControlarAtrasos(db, evaluaciones, ahora) ==
    IF evaluaciones = <<>> THEN db
    ELSE ControlarAtrasos(ControlarAtraso(db, Head(evaluaciones), ahora),
                          Tail(evaluaciones), ahora)

controlar_atrasos_evaluaciones_task(db, ahora) ==
    ControlarAtrasos(db, EvaluacionesPorControlar(db.tabla_evaluacion, ahora), ahora)

\* ------------------------------------------------------------------------
\* Actions
\* ------------------------------------------------------------------------

Escribir(db) ==
    /\ alertas' = db.alertas
    /\ notificaciones' = db.notificaciones
    /\ emails' = db.emails

\* A direct call of the alert service.
CrearAlerta(e, c, a, o, n, por) ==
    LET db == crear_alerta_temprana_automatizada(Tablas, now, e, c, a, o, n, por,
                                                 VentanaDiasSinDuplicar)
    IN  /\ Escribir(db)
        /\ ult' = [op |-> "crear_alerta", ret |-> db.ret]
        /\ UNCHANGED <<now, config, academia, registros, workers>>

\* AlertaTempranaViewSet.cerrar, or any other call of cerrar_alerta.
CerrarAlerta(i, usuario) ==
    LET db == cerrar_alerta(Tablas, now, i, usuario)
    IN  /\ Escribir(db)
        /\ ult' = [op |-> "cerrar_alerta", ret |-> db.ret]
        /\ UNCHANGED <<now, config, academia, registros, workers>>

CerrarAlertasViejas ==
    LET db == cerrar_alertas_viejas_task(Tablas, now)
    IN  /\ Escribir(db)
        /\ ult' = [op |-> "cerrar_alertas_viejas_task", ret |-> 0]
        /\ UNCHANGED <<now, config, academia, registros, workers>>

\* AlertaTempranaViewSet.partial_update writing the field estado.
ActualizarEstado(i, estado) ==
    /\ alertas' = [alertas EXCEPT ![i].estado = estado]
    /\ ult' = [op |-> "partial_update", ret |-> i]
    /\ UNCHANGED <<now, notificaciones, emails, config, academia, registros, workers>>

\* AsistenciaViewSet.alertas (POST), or any other call of the attendance
\* trigger for one student and course.
GenerarAlertaPorAsistencia(e, c, umbral, por) ==
    LET db == generar_alerta_por_asistencia(Tablas, asistencias, now, e, c, umbral,
                                            VentanaDiasAsistencia, por)
    IN  /\ Escribir(db)
        /\ ult' = [op |-> "generar_alerta_por_asistencia", ret |-> db.ret]
        /\ UNCHANGED <<now, config, academia, registros, workers>>

\* The periodic scan.
DetectarAlertasTempranas ==
    LET db == detectar_alertas_tempranas_task(Tablas, asistencias, calificaciones, now)
    IN  /\ Len(db.alertas) <= MaxAlertas
        /\ Escribir(db)
        /\ ult' = [op |-> "detectar_alertas_tempranas_task", ret |-> 0]
        /\ UNCHANGED <<now, config, academia, registros, workers>>

Tick(d) ==
    /\ now + d <= Dia0 + HorizonteDias
    /\ now' = now + d
    /\ ult' = [op |-> "tick", ret |-> 0]
    /\ UNCHANGED <<alertas, notificaciones, emails, config, academia, registros, workers>>

\* crear_alerta_temprana_automatizada run by worker w, one database statement
\* at a time.  First the existence query: the call returns None when it
\* finds an open alert of the tuple in the window, and goes on to the insert
\* otherwise.
Consultar(w, e, c, a, o, n, por) ==
    /\ pc[w] = "libre"
    /\ IF ExisteAlertaAbiertaReciente(alertas, e, c, a, o, now - VentanaDiasSinDuplicar)
       THEN /\ UNCHANGED workers
            /\ ult' = [op |-> "crear_alerta", ret |-> 0]
       ELSE /\ pc' = [pc EXCEPT ![w] = "insertar"]
            /\ local' = [local EXCEPT ![w] = <<e, c, a, o, n, por>>]
            /\ ult' = [op |-> "consultar", ret |-> 0]
    /\ UNCHANGED <<now, alertas, notificaciones, emails, config, academia, registros>>

\* Then the insert, stamped with the time of the insert, and the
\* notifications of the new alert.
Insertar(w) ==
    /\ pc[w] = "insertar"
    /\ LET x == local[w]
           alerta == [estudiante |-> x[1], curso |-> x[2], asignatura |-> x[3],
                      origen |-> x[4], nivel_riesgo |-> x[5], estado |-> "ABIERTA",
                      creada_por |-> x[6], fecha_creacion |-> now,
                      fecha_cierre |-> SinFecha]
           db == enviar_notificaciones_alerta(
                    [Tablas EXCEPT !.alertas = Append(@, alerta),
                                   !.ret = Len(alertas) + 1], alerta)
       IN  /\ Escribir(db)
           /\ ult' = [op |-> "crear_alerta", ret |-> db.ret]
    /\ pc' = [pc EXCEPT ![w] = "libre"]
    /\ local' = [local EXCEPT ![w] = SinLlamada]
    /\ UNCHANGED <<now, config, academia, registros>>

\* ------------------------------------------------------------------------
\* academico/signals.py
\* ------------------------------------------------------------------------

\* The post_save handler of Observacion.  It queues a mail for the guardians
\* of the student and, for an observation of gravedad ALTA, inserts an alert
\* row itself: the row gets the student and the course, and no origen, so
\* origen is empty and nivel_riesgo and estado keep their defaults.
observacion_notificacion(db, ahora, instance, created) ==
    IF ~created THEN db
    ELSE LET db1 == [db EXCEPT !.emails =
                        Append(@, [destinatario |-> instance.estudiante,
                                   asunto |-> "Nueva observacion",
                                   estado |-> "PENDIENTE"])]
         IN  IF instance.gravedad = "ALTA"
             THEN [db1 EXCEPT !.alertas =
                      Append(@, [estudiante |-> instance.estudiante,
                                 curso |-> instance.curso,
                                 asignatura |-> None, origen |-> "",
                                 nivel_riesgo |-> "MEDIO", estado |-> "ABIERTA",
                                 creada_por |-> None, fecha_creacion |-> ahora,
                                 fecha_cierre |-> SinFecha])]
             ELSE db1

\* An observation is recorded (ObservacionViewSet.create) and its post_save
\* handler runs.
RegistrarObservacion(e, c, gravedad) ==
    LET instance == [estudiante |-> e, curso |-> c, gravedad |-> gravedad,
                     fecha_registro |-> now]
        db == observacion_notificacion(Tablas, now, instance, TRUE)
    IN  /\ observaciones' = Append(observaciones, instance)
        /\ Escribir(db)
        /\ ult' = [op |-> "registrar_observacion", ret |-> Len(observaciones) + 1]
        /\ UNCHANGED <<now, config, academia, asistencias, calificaciones, workers>>

\* ------------------------------------------------------------------------
\* The alert engine: service calls, closing, the staleness sweep and the
\* passing of time, one operation at a time.
\* ------------------------------------------------------------------------

\* The tables of scheduling, evaluations and final averages before anything
\* is recorded: no class is scheduled, every evaluation is PENDIENTE, due for
\* publication on the first day, and no average and no report is stored.
EvaluacionPendiente(fecha_evaluacion, fecha_limite_publicacion) ==
    [estado |-> "PENDIENTE", fecha_evaluacion |-> fecha_evaluacion,
     fecha_limite_publicacion |-> fecha_limite_publicacion,
     fecha_publicacion |-> SinFecha]

InitAcademia ==
    /\ horarios = <<>>
    /\ tabla_evaluacion = [ev \in Evaluaciones |-> EvaluacionPendiente(Dia0, Dia0)]
    /\ promedios_finales = <<>>
    /\ reportes = <<>>

Init ==
    /\ now = Dia0
    /\ alertas = <<>>
    /\ notificaciones = <<>>
    /\ emails = <<>>
    /\ jefe_curso = [c \in Cursos |-> "d1"]
    /\ email = [d \in Docentes |-> "d1@colegio.cl"]
    /\ nota_aprobacion = AprobarDesdePorDefecto
    /\ curso_periodo = [c \in Cursos |-> "p1"]
    /\ tabla_user = UsuarioNuevo
    /\ reloj = 0
    /\ asistencias = EmptyBag
    /\ calificaciones = {}
    /\ observaciones = <<>>
    /\ pc = [w \in Workers |-> "libre"]
    /\ local = [w \in Workers |-> SinLlamada]
    /\ ult = [op |-> "init", ret |-> 0]
    /\ InitAcademia

\* The arguments the direct calls of the alert service are made with.
ArgsCrear == {"e1"} \X Cursos \X {None, "a1"} \X {"NOTAS"} \X {"ALTO"} \X {None}

PasoCrearAlerta ==
    \E x \in ArgsCrear :
        /\ Len(alertas) < MaxAlertas
        /\ CrearAlerta(x[1], x[2], x[3], x[4], x[5], x[6])

\* The view closes with the user of the request; the sweep is the caller
\* that closes with no user.
PasoCerrarAlerta ==
    \E i \in DOMAIN alertas, usuario \in Docentes : CerrarAlerta(i, usuario)

PasoSeguimiento ==
    \E i \in DOMAIN alertas :
        /\ alertas[i].estado = "ABIERTA"
        /\ ActualizarEstado(i, "EN_SEGUIMIENTO")

PasoTick == \E d \in PasosDias : Tick(d)

Next ==
    \/ PasoCrearAlerta
    \/ PasoCerrarAlerta
    \/ CerrarAlertasViejas
    \/ PasoSeguimiento
    \/ PasoTick

Spec == Init /\ [][Next]_vars

\* ------------------------------------------------------------------------
\* The alert service called by two workers at once (the periodic scan and a
\* request, or two requests), their database statements interleaved.
\* ------------------------------------------------------------------------

EnInsercion == {w \in Workers : pc[w] = "insertar"}

PasoConsultar ==
    \E w \in Workers, x \in ArgsCrear :
        /\ Len(alertas) + Cardinality(EnInsercion) < MaxAlertas
        /\ Consultar(w, x[1], x[2], x[3], x[4], x[5], x[6])

PasoInsertar == \E w \in Workers : Insertar(w)

NextConcurrente ==
    \/ PasoConsultar
    \/ PasoInsertar
    \/ PasoCerrarAlerta
    \/ PasoTick

SpecConcurrente == Init /\ [][NextConcurrente]_vars

\* ------------------------------------------------------------------------
\* All the operations of the alert engine together, over a student who has
\* an absence on the first day and three low grades in one subject; the
\* periodic scan is the caller of the attendance trigger.
\* ------------------------------------------------------------------------

AsistenciasMotor ==
    SetToBag({[estudiante |-> "e1", curso |-> "c1", fecha |-> Dia0,
               estado |-> "AUSENTE"]})

CalificacionesMotor ==
    {[evaluacion |-> ev, estudiante |-> "e1", nota |-> 20] :
        ev \in {"ev1", "ev2", "ev3"}}

InitMotor ==
    /\ now = Dia0
    /\ alertas = <<>>
    /\ notificaciones = <<>>
    /\ emails = <<>>
    /\ jefe_curso = [c \in Cursos |-> "d1"]
    /\ email = [d \in Docentes |-> "d1@colegio.cl"]
    /\ nota_aprobacion = AprobarDesdePorDefecto
    /\ curso_periodo = [c \in Cursos |-> "p1"]
    /\ tabla_user = UsuarioNuevo
    /\ reloj = 0
    /\ asistencias = AsistenciasMotor
    /\ calificaciones = CalificacionesMotor
    /\ observaciones = <<>>
    /\ pc = [w \in Workers |-> "libre"]
    /\ local = [w \in Workers |-> SinLlamada]
    /\ ult = [op |-> "init", ret |-> 0]
    /\ InitAcademia

NextMotor ==
    \/ PasoCrearAlerta
    \/ PasoCerrarAlerta
    \/ CerrarAlertasViejas
    \/ PasoSeguimiento
    \/ DetectarAlertasTempranas
    \/ PasoTick

SpecMotor == InitMotor /\ [][NextMotor]_vars

\* ------------------------------------------------------------------------
\* Observations recorded over time, and alerts closed.
\* ------------------------------------------------------------------------

PasoRegistrarObservacion ==
    \E e \in {"e1"}, c \in Cursos \cup {None}, gravedad \in GRAVEDAD_CHOICES :
        /\ Len(observaciones) < MaxObservaciones
        /\ RegistrarObservacion(e, c, gravedad)

NextObservacion ==
    \/ PasoRegistrarObservacion
    \/ PasoCerrarAlerta
    \/ PasoTick

SpecObservacion == Init /\ [][NextObservacion]_vars

\* ------------------------------------------------------------------------
\* The alert service over courses with or without a lead teacher, whose
\* lead teacher has or has not an email address, for every risk level.
\* ------------------------------------------------------------------------

InitNotificacion ==
    /\ now = Dia0
    /\ alertas = <<>>
    /\ notificaciones = <<>>
    /\ emails = <<>>
    /\ jefe_curso \in [Cursos -> Docentes \cup {None}]
    /\ email \in [Docentes -> {"", "d1@colegio.cl"}]
    /\ nota_aprobacion = AprobarDesdePorDefecto
    /\ curso_periodo = [c \in Cursos |-> "p1"]
    /\ tabla_user = UsuarioNuevo
    /\ reloj = 0
    /\ asistencias = EmptyBag
    /\ calificaciones = {}
    /\ observaciones = <<>>
    /\ pc = [w \in Workers |-> "libre"]
    /\ local = [w \in Workers |-> SinLlamada]
    /\ ult = [op |-> "init", ret |-> 0]
    /\ InitAcademia

ArgsNotificacion ==
    {"e1"} \X Cursos \X {None, "a1"} \X {"NOTAS"} \X NIVEL_RIESGO_CHOICES \X {None}

PasoCrearAlertaConNivel ==
    \E x \in ArgsNotificacion :
        /\ Len(alertas) < MaxAlertas
        /\ CrearAlerta(x[1], x[2], x[3], x[4], x[5], x[6])

NextNotificacion ==
    \/ PasoCrearAlertaConNivel
    \/ PasoTick

SpecNotificacion == InitNotificacion /\ [][NextNotificacion]_vars

\* ------------------------------------------------------------------------
\* The conflict checker over a given table of class assignments: the table
\* is drawn at the start, then a new candidate or a stored assignment is
\* validated.
\* ------------------------------------------------------------------------

\* The rows the table can hold: sala is NOT NULL in the table.
FilasHorario ==
    {HorarioCurso(c, "a1", d, sl, b, p, FALSE) :
        c \in CursosHorario, d \in Profesores, sl \in Salas, b \in Bloques, p \in Periodos}

\* The candidates that are validated before they are saved: any course and
\* teacher, a room or none, in block b1 of period p1.
CandidatosHorario ==
    {HorarioCurso(c, "a1", d, sl, "b1", "p1", FALSE) :
        c \in CursosHorario, d \in Profesores, sl \in {"s1", None}}

ValidarHorario(horario, id) ==
    /\ ult' = [op |-> "validar_horario_sin_conflictos",
               ret |-> IF validar_horario_sin_conflictos(horarios, horario, id) THEN 1 ELSE 0,
               horario |-> horario, id |-> id,
               conflictos |-> obtener_conflictos_horario(horarios, horario, id)]
    /\ UNCHANGED <<now, alertas, notificaciones, emails, config, registros, workers,
                   academia>>

InitConflictos ==
    /\ now = Dia0
    /\ alertas = <<>>
    /\ notificaciones = <<>>
    /\ emails = <<>>
    /\ jefe_curso = [c \in Cursos |-> "d1"]
    /\ email = [d \in Docentes |-> "d1@colegio.cl"]
    /\ nota_aprobacion = AprobarDesdePorDefecto
    /\ curso_periodo = [c \in Cursos |-> "p1"]
    /\ tabla_user = UsuarioNuevo
    /\ reloj = 0
    /\ asistencias = EmptyBag
    /\ calificaciones = {}
    /\ observaciones = <<>>
    /\ pc = [w \in Workers |-> "libre"]
    /\ local = [w \in Workers |-> SinLlamada]
    /\ ult = [op |-> "init", ret |-> 0]
    /\ \E n \in 0..MaxHorarios : horarios \in [1..n -> FilasHorario]
    /\ tabla_evaluacion = [ev \in Evaluaciones |-> EvaluacionPendiente(Dia0, Dia0)]
    /\ promedios_finales = <<>>
    /\ reportes = <<>>

PasoValidarCandidato == \E h \in CandidatosHorario : ValidarHorario(h, 0)

PasoValidarGuardado == \E i \in DOMAIN horarios : ValidarHorario(horarios[i], i)

NextConflictos ==
    \/ PasoValidarCandidato
    \/ PasoValidarGuardado

SpecConflictos == InitConflictos /\ [][NextConflictos]_vars

\* ------------------------------------------------------------------------
\* Class assignments created and changed: by the scheduling service, with
\* any arguments, and through the HorarioViewSet API.
\* ------------------------------------------------------------------------

\* The table after an operation, with the id of the row written (0 when the
\* operation raised and wrote nothing).
EscribirHorarios(op, tabla, id) ==
    /\ horarios' = tabla
    /\ ult' = [op |-> op, ret |-> IF tabla = horarios THEN 0 ELSE id]
    /\ UNCHANGED <<now, alertas, notificaciones, emails, config, registros, workers,
                   tabla_evaluacion, promedios_finales, reportes>>

CrearHorarioCurso(curso, docente, sala, bloque, periodo, validar_conflictos) ==
    EscribirHorarios("crear_horario_curso",
                     crear_horario_curso(horarios, curso, "a1", docente, sala, bloque,
                                         periodo, FALSE, validar_conflictos),
                     Len(horarios) + 1)

DuplicarHorarioComoRotativo(i, nuevo_bloque) ==
    EscribirHorarios("duplicar_horario_como_rotativo",
                     duplicar_horario_como_rotativo(horarios, i, nuevo_bloque),
                     Len(horarios) + 1)

\* HorarioViewSet.create: the serializer of the model validates the fields
\* and the unique_together of the table, then saves the row.
ApiCrearHorario(curso, docente, sala, bloque, periodo) ==
    LET horario == HorarioCurso(curso, "a1", docente, sala, bloque, periodo, FALSE)
    IN  EscribirHorarios("HorarioViewSet.create",
                         IF full_clean(horarios, horario, 0)
                         THEN Append(horarios, horario) ELSE horarios,
                         Len(horarios) + 1)

\* HorarioViewSet.partial_update writing the room and the block of a row.
ApiActualizarHorario(i, sala, bloque) ==
    LET horario == [horarios[i] EXCEPT !.sala = sala, !.bloque = bloque]
    IN  EscribirHorarios("HorarioViewSet.partial_update",
                         IF full_clean(horarios, horario, i)
                         THEN [horarios EXCEPT ![i] = horario] ELSE horarios,
                         i)

PasoCrearHorarioCurso ==
    \E c \in CursosHorario, d \in Profesores, sl \in Salas \cup {None}, b \in Bloques,
       p \in Periodos, validar_conflictos \in BOOLEAN :
        /\ Len(horarios) < MaxHorarios
        /\ CrearHorarioCurso(c, d, sl, b, p, validar_conflictos)

PasoDuplicarHorario ==
    \E i \in DOMAIN horarios, b \in Bloques :
        /\ Len(horarios) < MaxHorarios
        /\ DuplicarHorarioComoRotativo(i, b)

PasoApiCrearHorario ==
    \E c \in CursosHorario, d \in Profesores, sl \in Salas, b \in Bloques, p \in Periodos :
        /\ Len(horarios) < MaxHorarios
        /\ ApiCrearHorario(c, d, sl, b, p)

PasoApiActualizarHorario ==
    \E i \in DOMAIN horarios, sl \in Salas, b \in Bloques : ApiActualizarHorario(i, sl, b)

NextHorario ==
    \/ PasoCrearHorarioCurso
    \/ PasoDuplicarHorario
    \/ PasoApiCrearHorario
    \/ PasoApiActualizarHorario

SpecHorario == Init /\ [][NextHorario]_vars

\* ------------------------------------------------------------------------
\* The scheduling service called by two workers at once, conflicts always
\* validated: the validation of a call and its save are separate database
\* statements, and statements of the two calls interleave.
\* ------------------------------------------------------------------------

\* The validation of crear_horario_curso or duplicar_horario_como_rotativo
\* for the new object `horario`: the call raises on a conflict and goes on
\* to save otherwise.
ValidarParaGuardar(w, op, horario) ==
    /\ pc[w] = "libre"
    /\ IF validar_horario_sin_conflictos(horarios, horario, 0)
       THEN /\ pc' = [pc EXCEPT ![w] = "guardar_horario"]
            /\ local' = [local EXCEPT ![w] = <<op, horario>>]
            /\ ult' = [op |-> "validar_para_guardar", ret |-> 1]
       ELSE /\ UNCHANGED workers
            /\ ult' = [op |-> op, ret |-> 0]
    /\ UNCHANGED <<now, alertas, notificaciones, emails, config, registros, academia>>

\* full_clean and save of the call of worker w.
GuardarHorario(w) ==
    /\ pc[w] = "guardar_horario"
    /\ LET horario == local[w][2]
           guarda == full_clean(horarios, horario, 0)
       IN  /\ horarios' = IF guarda THEN Append(horarios, horario) ELSE horarios
           /\ ult' = [op |-> local[w][1],
                      ret |-> IF guarda THEN Len(horarios) + 1 ELSE 0]
    /\ pc' = [pc EXCEPT ![w] = "libre"]
    /\ local' = [local EXCEPT ![w] = SinLlamada]
    /\ UNCHANGED <<now, alertas, notificaciones, emails, config, registros,
                   tabla_evaluacion, promedios_finales, reportes>>

GuardandoHorario == {w \in Workers : pc[w] = "guardar_horario"}

PasoValidarParaCrear ==
    \E w \in Workers, c \in CursosHorario, d \in Profesores, sl \in Salas, b \in Bloques,
       p \in Periodos :
        /\ Len(horarios) + Cardinality(GuardandoHorario) < MaxHorarios
        /\ ValidarParaGuardar(w, "crear_horario_curso",
                              HorarioCurso(c, "a1", d, sl, b, p, FALSE))

PasoValidarParaDuplicar ==
    \E w \in Workers, i \in DOMAIN horarios, b \in Bloques :
        /\ Len(horarios) + Cardinality(GuardandoHorario) < MaxHorarios
        /\ ValidarParaGuardar(w, "duplicar_horario_como_rotativo",
                              HorarioCurso(horarios[i].curso, horarios[i].asignatura,
                                           horarios[i].docente, horarios[i].sala, b,
                                           horarios[i].periodo, TRUE))

PasoGuardarHorario == \E w \in Workers : GuardarHorario(w)

NextHorarioConcurrente ==
    \/ PasoValidarParaCrear
    \/ PasoValidarParaDuplicar
    \/ PasoGuardarHorario

SpecHorarioConcurrente == Init /\ [][NextHorarioConcurrente]_vars

\* ------------------------------------------------------------------------
\* The life cycle of evaluations: publication from the view, the state check
\* called with a reference date, the daily task and the passing of days.
\* ------------------------------------------------------------------------

EvaluacionPublicada(fecha_evaluacion, fecha_limite_publicacion, fecha_publicacion) ==
    [estado |-> "PUBLICADA", fecha_evaluacion |-> fecha_evaluacion,
     fecha_limite_publicacion |-> fecha_limite_publicacion,
     fecha_publicacion |-> fecha_publicacion]

\* Evaluation ev1 was held on the first day and is not published; its limit
\* of publication is the day before (dates the model's clean() rejects and
\* the API stores), that day or the day after. The other evaluations are
\* published.
InitEvaluacion ==
    /\ now = Dia0
    /\ alertas = <<>>
    /\ notificaciones = <<>>
    /\ emails = <<>>
    /\ jefe_curso = [c \in Cursos |-> "d1"]
    /\ email \in [Docentes -> {"", "d1@colegio.cl"}]
    /\ nota_aprobacion = AprobarDesdePorDefecto
    /\ curso_periodo = [c \in Cursos |-> "p1"]
    /\ tabla_user = UsuarioNuevo
    /\ reloj = 0
    /\ asistencias = EmptyBag
    /\ calificaciones = {}
    /\ observaciones = <<>>
    /\ pc = [w \in Workers |-> "libre"]
    /\ local = [w \in Workers |-> SinLlamada]
    /\ ult = [op |-> "init", ret |-> 0]
    /\ horarios = <<>>
    /\ \E l1 \in {Dia0 - 1, Dia0, Dia0 + 1} :
          tabla_evaluacion =
              [ev \in Evaluaciones |->
                  IF ev = "ev1" THEN EvaluacionPendiente(Dia0, l1)
                  ELSE EvaluacionPublicada(Dia0, Dia0, Dia0)]
    /\ promedios_finales = <<>>
    /\ reportes = <<>>

EscribirEvaluacion(db) ==
    /\ tabla_evaluacion' = db.tabla_evaluacion
    /\ notificaciones' = db.notificaciones
    /\ emails' = db.emails
    /\ UNCHANGED <<now, alertas, config, registros, workers, horarios,
                   promedios_finales, reportes>>

\* EvaluacionViewSet.publicar, or a direct call of the service.
PublicarEvaluacion(ev, usuario, notificar_estudiantes, notificar_apoderados) ==
    LET db == publicar_evaluacion(TablasEvaluacion, ev, usuario, notificar_estudiantes,
                                  notificar_apoderados, now)
    IN  /\ EscribirEvaluacion(db)
        /\ ult' = [op |-> "publicar_evaluacion", evaluacion |-> ev,
                   ret |-> db.ret]

\* A call of the state check with a reference date (SinFecha: none given,
\* the clock is read).
ActualizarEstadoPorAtraso(ev, referencia_fecha) ==
    LET db == actualizar_estado_por_atraso(TablasEvaluacion, ev, referencia_fecha, now)
    IN  /\ EscribirEvaluacion(db)
        /\ ult' = [op |-> "actualizar_estado_por_atraso", evaluacion |-> ev,
                   ref |-> IF referencia_fecha # SinFecha THEN referencia_fecha ELSE now,
                   ret |-> db.ret]

\* One run of the periodic task.
ControlarAtrasosEvaluaciones ==
    LET db == controlar_atrasos_evaluaciones_task(TablasEvaluacion, now)
    IN  /\ EscribirEvaluacion(db)
        /\ ult' = [op |-> "controlar_atrasos_evaluaciones_task", evaluacion |-> None,
                   ret |-> Len(db.notificaciones) - Len(notificaciones)]

\* A day passes.
PasoDia ==
    /\ now < Dia0 + MaxDiasCiclo
    /\ now' = now + 1
    /\ ult' = [op |-> "dia", ret |-> 0]
    /\ UNCHANGED <<alertas, notificaciones, emails, config, registros, workers,
                   academia>>

PasoPublicarEvaluacion ==
    \E ev \in Evaluaciones, usuario \in Publicadores,
       notificar_estudiantes \in BOOLEAN, notificar_apoderados \in BOOLEAN :
        PublicarEvaluacion(ev, usuario, notificar_estudiantes, notificar_apoderados)

PasoActualizarEstadoPorAtraso ==
    \E ev \in Evaluaciones, referencia_fecha \in {SinFecha, now - 1, now + 1} :
        ActualizarEstadoPorAtraso(ev, referencia_fecha)

NextEvaluacion ==
    \/ PasoPublicarEvaluacion
    \/ PasoActualizarEstadoPorAtraso
    \/ ControlarAtrasosEvaluaciones
    \/ PasoDia

SpecEvaluacion == InitEvaluacion /\ [][NextEvaluacion]_vars

\* ------------------------------------------------------------------------
\* The evaluations API: usuarios/permissions.py, academico/permissions.py
\* and EvaluacionViewSet.publicar
\* ------------------------------------------------------------------------

\* Role.ROLE_CHOICES.
ROLE_CHOICES == {"ADMIN", "DIRECTOR", "DOCENTE", "ALUMNO", "APODERADO"}

\* The users a request can carry: anonymous or logged in, with a role or
\* without one, superuser or not.
UsuariosDeRequest ==
    [is_authenticated : BOOLEAN, role : ROLE_CHOICES \cup {None},
     is_superuser : BOOLEAN]

has_permission_con_superuser(user, allowed_roles) ==
    /\ user.is_authenticated
    /\ \/ user.is_superuser
       \/ /\ user.role # None
          /\ user.role \in allowed_roles

\* RolePermissionBase.has_permission.
RolePermissionBase(user, allowed_roles) ==
    IF ~user.is_authenticated THEN FALSE
    ELSE IF user.role = None THEN FALSE
    ELSE user.role \in allowed_roles

IsAuthenticated(user) == user.is_authenticated

IsDocente(user) == RolePermissionBase(user, {"DOCENTE"})

IsAdministradorAcademico(user) == RolePermissionBase(user, {"ADMIN", "DIRECTOR"})

IsDocenteOrAdministradorAcademico(user) ==
    IF IsDocente(user) THEN TRUE
    ELSE IF IsAdministradorAcademico(user) THEN TRUE
    ELSE FALSE

\* The permissions of the action publicar, checked before the handler runs.
get_permissions_publicar(user) ==
    /\ IsAuthenticated(user)
    /\ IsDocenteOrAdministradorAcademico(user)

\* POST /evaluaciones/{ev}/publicar/ by user: 403 when a permission refuses,
\* else the service is called with the user of the request; its
\* ValidationError is not one the API turns into a 400.
ApiPublicar(ev, user, notificar_estudiantes, notificar_apoderados) ==
    IF ~get_permissions_publicar(user)
    THEN /\ ult' = [op |-> "api_publicar", evaluacion |-> ev, user |-> user,
                    ret |-> 403]
         /\ UNCHANGED <<now, alertas, notificaciones, emails, config, registros,
                        workers, academia>>
    ELSE LET db == publicar_evaluacion(TablasEvaluacion, ev, "adm", notificar_estudiantes,
                                       notificar_apoderados, now)
         IN  /\ EscribirEvaluacion(db)
             /\ ult' = [op |-> "api_publicar", evaluacion |-> ev, user |-> user,
                        ret |-> IF db.ret = 1 THEN 200 ELSE 500]

\* The body of a refused request is never read: its flags keep their defaults.
PasoApiPublicar ==
    \E ev \in Evaluaciones, user \in UsuariosDeRequest :
        \E notificar_estudiantes \in
               (IF get_permissions_publicar(user) THEN BOOLEAN ELSE {TRUE}),
           notificar_apoderados \in
               (IF get_permissions_publicar(user) THEN BOOLEAN ELSE {FALSE}) :
            ApiPublicar(ev, user, notificar_estudiantes, notificar_apoderados)

NextApiEvaluacion ==
    \/ PasoApiPublicar
    \/ PasoActualizarEstadoPorAtraso
    \/ PasoDia

SpecApiEvaluacion == InitEvaluacion /\ [][NextApiEvaluacion]_vars

\* ------------------------------------------------------------------------
\* The periodic task over several unpublished evaluations: ev1 and ev2 were
\* held the day before the first day, with limits of publication around the
\* first day; the task runs, days pass, and between runs an evaluation is
\* published (no user, no notices to students or guardians) or checked
\* against the clock.
\* ------------------------------------------------------------------------

InitControlAtrasos ==
    /\ now = Dia0
    /\ alertas = <<>>
    /\ notificaciones = <<>>
    /\ emails = <<>>
    /\ jefe_curso = [c \in Cursos |-> "d1"]
    /\ email \in [Docentes -> {"", "d1@colegio.cl"}]
    /\ nota_aprobacion = AprobarDesdePorDefecto
    /\ curso_periodo = [c \in Cursos |-> "p1"]
    /\ tabla_user = UsuarioNuevo
    /\ reloj = 0
    /\ asistencias = EmptyBag
    /\ calificaciones = {}
    /\ observaciones = <<>>
    /\ pc = [w \in Workers |-> "libre"]
    /\ local = [w \in Workers |-> SinLlamada]
    /\ ult = [op |-> "init", ret |-> 0]
    /\ horarios = <<>>
    /\ \E l1 \in {Dia0 - 1, Dia0, Dia0 + 1}, l2 \in {Dia0 - 1, Dia0} :
          tabla_evaluacion =
              [ev \in Evaluaciones |->
                  IF ev = "ev1" THEN EvaluacionPendiente(Dia0 - 1, l1)
                  ELSE IF ev = "ev2" THEN EvaluacionPendiente(Dia0 - 1, l2)
                  ELSE EvaluacionPublicada(Dia0, Dia0, Dia0)]
    /\ promedios_finales = <<>>
    /\ reportes = <<>>

PasoPublicarSinAvisos ==
    \E ev \in Evaluaciones : PublicarEvaluacion(ev, None, FALSE, FALSE)

PasoActualizarEstadoAhora ==
    \E ev \in Evaluaciones : ActualizarEstadoPorAtraso(ev, SinFecha)

NextControlAtrasos ==
    \/ ControlarAtrasosEvaluaciones
    \/ PasoDia
    \/ PasoPublicarSinAvisos
    \/ PasoActualizarEstadoAhora

SpecControlAtrasos == InitControlAtrasos /\ [][NextControlAtrasos]_vars

\* ------------------------------------------------------------------------
\* Final averages over a given set of grades: the grades and the passing
\* grade of the institution are drawn at the start, then averages are
\* recomputed and reports generated, for any subject of the period.
\* ------------------------------------------------------------------------

\* The grades that may be recorded: e1 in the three evaluations of a1 and in
\* that of a2, e2 in one evaluation of a1.
PuestosDeNotas == {<<"ev1", "e1">>, <<"ev2", "e1">>, <<"ev3", "e1">>, <<"ev4", "e1">>,
                   <<"ev1", "e2">>}
NotasDePromedio == {35, 45}

InitPromedios ==
    /\ now = Dia0
    /\ alertas = <<>>
    /\ notificaciones = <<>>
    /\ emails = <<>>
    /\ jefe_curso = [c \in Cursos |-> "d1"]
    /\ email = [d \in Docentes |-> "d1@colegio.cl"]
    /\ nota_aprobacion \in {AprobarDesdePorDefecto, 50}
    /\ curso_periodo = [c \in Cursos |-> "p1"]
    /\ tabla_user = UsuarioNuevo
    /\ reloj = 0
    /\ asistencias = EmptyBag
    /\ \E f \in [PuestosDeNotas -> NotasDePromedio \cup {SinNota}] :
          calificaciones = {[evaluacion |-> x[1], estudiante |-> x[2], nota |-> f[x]] :
                               x \in {y \in PuestosDeNotas : f[y] # SinNota}}
    /\ observaciones = <<>>
    /\ pc = [w \in Workers |-> "libre"]
    /\ local = [w \in Workers |-> SinLlamada]
    /\ ult = [op |-> "init", ret |-> 0]
    /\ InitAcademia

\* A call of the recomputation with the passing grade of the institution.
RecalcularPromediosFinales(curso, asignatura, periodo) ==
    /\ promedios_finales' =
          recalcular_promedios_finales_curso_asignatura(promedios_finales, calificaciones,
              curso, asignatura, periodo, nota_aprobacion)
    /\ ult' = [op |-> "recalcular_promedios_finales_curso_asignatura",
               curso |-> curso, asignatura |-> asignatura, periodo |-> periodo,
               ret |-> 1]
    /\ UNCHANGED <<now, alertas, notificaciones, emails, config, registros, workers,
                   horarios, tabla_evaluacion, reportes>>

\* A call of the report generator, as generar_reportes_para_periodo and the
\* periodic task make it.
GenerarReporteNotas(curso, asignatura, periodo, generado_por) ==
    LET db == generar_reporte_notas_curso_asignatura_periodo(promedios_finales, reportes,
                  calificaciones, curso, asignatura, periodo, generado_por)
    IN  /\ promedios_finales' = db.promedios_finales
        /\ reportes' = db.reportes
        /\ ult' = [op |-> "generar_reporte_notas_curso_asignatura_periodo",
                   curso |-> curso, asignatura |-> asignatura, periodo |-> periodo,
                   ret |-> db.ret]
        /\ UNCHANGED <<now, alertas, notificaciones, emails, config, registros, workers,
                       horarios, tabla_evaluacion>>

PasoRecalcularPromedios ==
    \E c \in Cursos, a \in Asignaturas : RecalcularPromediosFinales(c, a, "p1")

PasoGenerarReporte ==
    \E c \in Cursos, a \in Asignaturas, por \in Docentes \cup {None} :
        GenerarReporteNotas(c, a, "p1", por)

NextPromedios ==
    \/ PasoRecalcularPromedios
    \/ PasoGenerarReporte

SpecPromedios == InitPromedios /\ [][NextPromedios]_vars

\* ------------------------------------------------------------------------
\* Final averages while grades are deleted: recomputations with the passing
\* grade of the institution, and NotaViewSet.destroy between them.
\* ------------------------------------------------------------------------

\* NotaViewSet.destroy: the row of the grade is deleted.
EliminarCalificacion(k) ==
    /\ calificaciones' = calificaciones \ {k}
    /\ ult' = [op |-> "eliminar_calificacion", ret |-> 0]
    /\ UNCHANGED <<now, alertas, notificaciones, emails, config, asistencias,
                   observaciones, workers, academia>>

PasoEliminarCalificacion == \E k \in calificaciones : EliminarCalificacion(k)

NextPromediosVivos ==
    \/ PasoRecalcularPromedios
    \/ PasoEliminarCalificacion

SpecPromediosVivos == InitPromedios /\ [][NextPromediosVivos]_vars

\* ------------------------------------------------------------------------
\* The reports of a period over a given set of grades: the grades and the
\* period of the course are drawn at the start, then the reports of a period
\* are generated, as the periodic task does.
\* ------------------------------------------------------------------------

InitReportes ==
    /\ now = Dia0
    /\ alertas = <<>>
    /\ notificaciones = <<>>
    /\ emails = <<>>
    /\ jefe_curso = [c \in Cursos |-> "d1"]
    /\ email = [d \in Docentes |-> "d1@colegio.cl"]
    /\ nota_aprobacion = AprobarDesdePorDefecto
    /\ curso_periodo \in [Cursos -> Periodos]
    /\ tabla_user = UsuarioNuevo
    /\ reloj = 0
    /\ asistencias = EmptyBag
    /\ \E f \in [PuestosDeNotas -> NotasDePromedio \cup {SinNota}] :
          calificaciones = {[evaluacion |-> x[1], estudiante |-> x[2], nota |-> f[x]] :
                               x \in {y \in PuestosDeNotas : f[y] # SinNota}}
    /\ observaciones = <<>>
    /\ pc = [w \in Workers |-> "libre"]
    /\ local = [w \in Workers |-> SinLlamada]
    /\ ult = [op |-> "init", ret |-> 0]
    /\ InitAcademia

\* generar_reportes_notas_periodo_task for a period.
GenerarReportesParaPeriodo(periodo, generado_por) ==
    LET db == generar_reportes_para_periodo(promedios_finales, reportes, calificaciones,
                                            periodo, generado_por)
    IN  /\ promedios_finales' = db.promedios_finales
        /\ reportes' = db.reportes
        /\ ult' = [op |-> "generar_reportes_para_periodo", periodo |-> periodo,
                   ret |-> Len(db.reportes) - Len(reportes)]
        /\ UNCHANGED <<now, alertas, notificaciones, emails, config, registros, workers,
                       horarios, tabla_evaluacion>>

PasoGenerarReportesParaPeriodo ==
    \E p \in Periodos, por \in Docentes \cup {None} : GenerarReportesParaPeriodo(p, por)

NextReportes ==
    \/ PasoGenerarReportesParaPeriodo
    \/ PasoGenerarReporte

SpecReportes == InitReportes /\ [][NextReportes]_vars

\* ------------------------------------------------------------------------
\* The mail queue: mails are queued, by the services with no time to wait
\* for and from the administration site with one, and the periodic task
\* sends them, each send succeeding or raising.
\* ------------------------------------------------------------------------

EncolarCorreo(enviar_despues_de) ==
    /\ Len(emails) < MaxCorreos
    /\ emails' = Append(emails, CorreoEnCola("d1@colegio.cl", "Aviso", enviar_despues_de))
    /\ ult' = [op |-> "encolar", ret |-> Len(emails) + 1]
    /\ UNCHANGED <<now, alertas, notificaciones, config, registros, workers, academia>>

ProcesarEmailQueue(max_emails, fallan) ==
    /\ emails' = procesar_email_queue_task(emails, max_emails, fallan)
    /\ ult' = [op |-> "procesar_email_queue_task", max_emails |-> max_emails,
               fallan |-> fallan, ret |-> 0]
    /\ UNCHANGED <<now, alertas, notificaciones, config, registros, workers, academia>>

PasoEncolarCorreo == \E d \in {SinFecha, now + 1} : EncolarCorreo(d)

PasoProcesarEmailQueue ==
    \E max_emails \in {1, MAX_EMAILS_POR_DEFECTO} :
        \E fallan \in SUBSET SeleccionPendientes(emails, max_emails) :
            ProcesarEmailQueue(max_emails, fallan)

NextCorreos ==
    \/ PasoEncolarCorreo
    \/ PasoProcesarEmailQueue

SpecCorreos == Init /\ [][NextCorreos]_vars

\* ------------------------------------------------------------------------
\* Login and its lockout: usuarios/views.py and User.is_temporarily_blocked
\* ------------------------------------------------------------------------

is_temporarily_blocked(user, ahora) ==
    user.blocked_until # SinFecha /\ ahora < user.blocked_until

\* LoginView.post for the account, with the right password or a wrong one:
\* the row of the account after the request, and the status of the response.
LoginView(user, password_ok, ahora) ==
    IF is_temporarily_blocked(user, ahora) \/ user.is_blocked
    THEN [user |-> user, ret |-> 403]
    ELSE IF ~password_ok
    THEN LET failed_attempts == user.failed_attempts + 1
         IN  [user |-> IF failed_attempts >= MAX_INTENTOS_FALLIDOS
                       THEN [failed_attempts |-> failed_attempts,
                             is_blocked |-> TRUE,
                             blocked_until |-> ahora + MINUTOS_BLOQUEO]
                       ELSE [user EXCEPT !.failed_attempts = failed_attempts],
              ret |-> 401]
    ELSE [user |-> [user EXCEPT !.failed_attempts = 0], ret |-> 200]

\* UnblockUserView.post for the account.
UnblockUserView(user) ==
    [failed_attempts |-> 0, is_blocked |-> FALSE, blocked_until |-> SinFecha]

Login(password_ok) ==
    LET r == LoginView(tabla_user, password_ok, reloj)
    IN  /\ tabla_user' = r.user
        /\ ult' = [op |-> "login", password_ok |-> password_ok, ret |-> r.ret]
        /\ UNCHANGED <<now, alertas, notificaciones, emails, jefe_curso, email,
                       nota_aprobacion, curso_periodo, reloj, registros, workers,
                       academia>>

PasoLogin == \E password_ok \in BOOLEAN : Login(password_ok)

\* An administrator unblocks the account.
PasoDesbloquear ==
    /\ tabla_user' = UnblockUserView(tabla_user)
    /\ ult' = [op |-> "unblock", ret |-> 200]
    /\ UNCHANGED <<now, alertas, notificaciones, emails, jefe_curso, email,
                   nota_aprobacion, curso_periodo, reloj, registros, workers, academia>>

\* Minutes pass.
PasosMinutos == {10, 15}

PasoMinutos ==
    \E d \in PasosMinutos :
        /\ reloj + d <= HorizonteMinutos
        /\ reloj' = reloj + d
        /\ ult' = [op |-> "minutos", ret |-> 0]
        /\ UNCHANGED <<now, alertas, notificaciones, emails, jefe_curso, email,
                       nota_aprobacion, curso_periodo, tabla_user, registros, workers,
                       academia>>

NextLogin ==
    \/ PasoLogin
    \/ PasoDesbloquear
    \/ PasoMinutos

SpecLogin == Init /\ [][NextLogin]_vars

\* ------------------------------------------------------------------------
\* The attendance trigger over a given attendance history: the history is
\* drawn at the start, then the trigger is called for a student and course,
\* and the periodic scan runs.
\* ------------------------------------------------------------------------

\* The kinds of attendance rows of student e1 in course c1, by their date
\* relative to the first day: today, on the first day of the window, before
\* the window and after today.  A history holds any number of rows of each
\* kind dated today and at most one row of each other kind.
TiposAsistencia ==
    << [estudiante |-> "e1", curso |-> "c1", fecha |-> Dia0, estado |-> "PRESENTE"],
       [estudiante |-> "e1", curso |-> "c1", fecha |-> Dia0, estado |-> "AUSENTE"],
       [estudiante |-> "e1", curso |-> "c1", fecha |-> Dia0, estado |-> "ATRASO"],
       [estudiante |-> "e1", curso |-> "c1", fecha |-> Dia0, estado |-> "JUSTIFICADO"],
       [estudiante |-> "e1", curso |-> "c1", fecha |-> Dia0 - VentanaDiasAsistencia,
        estado |-> "AUSENTE"],
       [estudiante |-> "e1", curso |-> "c1", fecha |-> Dia0 - VentanaDiasAsistencia - 1,
        estado |-> "AUSENTE"],
       [estudiante |-> "e1", curso |-> "c1", fecha |-> Dia0 + 1, estado |-> "AUSENTE"] >>

BolsaDe(reparto) ==
    LET presentes == {i \in DOMAIN reparto : reparto[i] > 0}
    IN  [f \in {TiposAsistencia[i] : i \in presentes} |->
            reparto[CHOOSE i \in presentes : TiposAsistencia[i] = f]]

InitAsistencia ==
    /\ now = Dia0
    /\ alertas = <<>>
    /\ notificaciones = <<>>
    /\ emails = <<>>
    /\ jefe_curso = [c \in Cursos |-> "d1"]
    /\ email = [d \in Docentes |-> "d1@colegio.cl"]
    /\ nota_aprobacion = AprobarDesdePorDefecto
    /\ curso_periodo = [c \in Cursos |-> "p1"]
    /\ tabla_user = UsuarioNuevo
    /\ reloj = 0
    /\ \E n1 \in 0..MaxAsistencias : \E n2 \in 0..(MaxAsistencias - n1) :
       \E n3 \in 0..(MaxAsistencias - n1 - n2) :
       \E n4 \in 0..(MaxAsistencias - n1 - n2 - n3) :
       \E n5 \in 0..1, n6 \in 0..1, n7 \in 0..1 :
          /\ n1 + n2 + n3 + n4 + n5 + n6 + n7 <= MaxAsistencias
          /\ asistencias = BolsaDe(<<n1, n2, n3, n4, n5, n6, n7>>)
    /\ calificaciones = {}
    /\ observaciones = <<>>
    /\ pc = [w \in Workers |-> "libre"]
    /\ local = [w \in Workers |-> SinLlamada]
    /\ ult = [op |-> "init", ret |-> 0]
    /\ InitAcademia

\* The arguments the attendance trigger is called with.
ArgsAsistencia == {"e1"} \X Cursos \X {0, ALERTA_INASISTENCIA_PORCENTAJE} \X {None, "d1"}

PasoGenerarAlertaPorAsistencia ==
    \E x \in ArgsAsistencia :
        /\ Len(alertas) < MaxAlertas
        /\ GenerarAlertaPorAsistencia(x[1], x[2], x[3], x[4])

NextAsistencia ==
    \/ PasoGenerarAlertaPorAsistencia
    \/ DetectarAlertasTempranas

SpecAsistencia == InitAsistencia /\ [][NextAsistencia]_vars

\* ------------------------------------------------------------------------
\* The grade scan over a given set of grades: the grades are drawn at the
\* start, then the periodic scan runs and alerts are closed.
\* ------------------------------------------------------------------------

InitNotas ==
    /\ now = Dia0
    /\ alertas = <<>>
    /\ notificaciones = <<>>
    /\ emails = <<>>
    /\ jefe_curso = [c \in Cursos |-> "d1"]
    /\ email = [d \in Docentes |-> "d1@colegio.cl"]
    /\ nota_aprobacion = AprobarDesdePorDefecto
    /\ curso_periodo = [c \in Cursos |-> "p1"]
    /\ tabla_user = UsuarioNuevo
    /\ reloj = 0
    /\ asistencias = EmptyBag
    /\ \E f \in [Evaluaciones \X Estudiantes -> Notas \cup {SinNota}] :
          LET puestas == {x \in Evaluaciones \X Estudiantes : f[x] # SinNota}
          IN  /\ Cardinality(puestas) <= MaxCalificaciones
              /\ calificaciones = {[evaluacion |-> x[1], estudiante |-> x[2],
                                    nota |-> f[x]] : x \in puestas}
    /\ observaciones = <<>>
    /\ pc = [w \in Workers |-> "libre"]
    /\ local = [w \in Workers |-> SinLlamada]
    /\ ult = [op |-> "init", ret |-> 0]
    /\ InitAcademia

NextNotas ==
    \/ DetectarAlertasTempranas
    \/ PasoCerrarAlerta

SpecNotas == InitNotas /\ [][NextNotas]_vars

\* ------------------------------------------------------------------------
\* Attendance and grades recorded through the API, with their post_save
\* handlers, next to the periodic scan and the attendance-alert endpoint.
\* ------------------------------------------------------------------------

\* The count of AUSENTE rows of a student, over every course and date.
AusenciasDe(tabla, estudiante) ==
    SumaCopias(tabla, {f \in BagToSet(tabla) : /\ f.estudiante = estudiante
                                               /\ f.estado = "AUSENTE"})

\* The alert row a post_save handler inserts: the student and the course,
\* no origen, nivel_riesgo and estado at their defaults.
AlertaDeSignal(estudiante, curso, ahora) ==
    [estudiante |-> estudiante, curso |-> curso, asignatura |-> None,
     origen |-> "", nivel_riesgo |-> "MEDIO", estado |-> "ABIERTA",
     creada_por |-> None, fecha_creacion |-> ahora, fecha_cierre |-> SinFecha]

\* The post_save handler of Asistencia; tabla holds the saved row.
asistencia_notificacion(db, tabla, ahora, instance, created) ==
    IF ~created THEN db
    ELSE LET db1 == [db EXCEPT !.emails =
                        Append(@, [destinatario |-> instance.estudiante,
                                   asunto |-> "Asistencia registrada",
                                   estado |-> "PENDIENTE"])]
         IN  IF /\ instance.estado = "AUSENTE"
                /\ AusenciasDe(tabla, instance.estudiante) >= AusenciasFrecuentes
             THEN [db1 EXCEPT !.alertas =
                      Append(@, AlertaDeSignal(instance.estudiante, instance.curso,
                                               ahora))]
             ELSE db1

\* The score the handler of Calificacion divides by: the top of the scale.
puntaje_maximo(ev) == NotaMaxima

\* The post_save handler of Calificacion, run at every save.
calificacion_notificacion(db, ahora, instance) ==
    LET db1 == [db EXCEPT !.emails =
                   Append(@, [destinatario |-> instance.estudiante,
                              asunto |-> "Nueva calificacion registrada",
                              estado |-> "PENDIENTE"])]
    IN  IF instance.nota * 100 < PorcentajeNotaInsuficiente * puntaje_maximo(instance.evaluacion)
        THEN [db1 EXCEPT !.alertas =
                 Append(@, AlertaDeSignal(instance.estudiante,
                                          evaluacion_curso(instance.evaluacion), ahora))]
        ELSE db1

\* AsistenciaViewSet.create: the row is saved and its handler runs.
RegistrarAsistencia(e, c, estado) ==
    LET instance == [estudiante |-> e, curso |-> c, fecha |-> now, estado |-> estado]
        tabla == asistencias (+) SetToBag({instance})
        db == asistencia_notificacion(Tablas, tabla, now, instance, TRUE)
    IN  /\ Len(db.alertas) <= MaxAlertas
        /\ asistencias' = tabla
        /\ Escribir(db)
        /\ ult' = [op |-> "registrar_asistencia", ret |-> BagCardinality(tabla)]
        /\ UNCHANGED <<now, config, academia, calificaciones, observaciones, workers>>

\* NotaViewSet.create: the row is saved and its handler runs.
RegistrarCalificacion(ev, e, nota) ==
    LET instance == [evaluacion |-> ev, estudiante |-> e, nota |-> nota]
        db == calificacion_notificacion(Tablas, now, instance)
    IN  /\ \A x \in calificaciones : ~(x.evaluacion = ev /\ x.estudiante = e)
        /\ Len(db.alertas) <= MaxAlertas
        /\ calificaciones' = calificaciones \cup {instance}
        /\ Escribir(db)
        /\ ult' = [op |-> "registrar_calificacion",
                   ret |-> Cardinality(calificaciones) + 1]
        /\ UNCHANGED <<now, config, academia, asistencias, observaciones, workers>>

\* Student e1 was absent on four earlier days of the window.
AsistenciasAnteriores ==
    [f \in {[estudiante |-> "e1", curso |-> "c1", fecha |-> Dia0 - 1,
             estado |-> "AUSENTE"]} |-> AusenciasFrecuentes - 1]

\* The grades a request records: one under 60 % of the scale and one over.
NotasRegistradas == {20, 60}

InitEscrituras ==
    /\ now = Dia0
    /\ alertas = <<>>
    /\ notificaciones = <<>>
    /\ emails = <<>>
    /\ jefe_curso = [c \in Cursos |-> "d1"]
    /\ email = [d \in Docentes |-> "d1@colegio.cl"]
    /\ nota_aprobacion = AprobarDesdePorDefecto
    /\ curso_periodo = [c \in Cursos |-> "p1"]
    /\ tabla_user = UsuarioNuevo
    /\ reloj = 0
    /\ asistencias = AsistenciasAnteriores
    /\ calificaciones = {}
    /\ observaciones = <<>>
    /\ pc = [w \in Workers |-> "libre"]
    /\ local = [w \in Workers |-> SinLlamada]
    /\ ult = [op |-> "init", ret |-> 0]
    /\ InitAcademia

Escrituras ==
    BagCardinality(asistencias) - BagCardinality(AsistenciasAnteriores)
    + Cardinality(calificaciones)

PasoRegistrarAsistencia ==
    \E estado \in {"PRESENTE", "AUSENTE"} :
        /\ Escrituras < MaxEscrituras
        /\ RegistrarAsistencia("e1", "c1", estado)

PasoRegistrarCalificacion ==
    \E ev \in Evaluaciones, nota \in NotasRegistradas :
        /\ Escrituras < MaxEscrituras
        /\ RegistrarCalificacion(ev, "e1", nota)

NextEscrituras ==
    \/ PasoRegistrarAsistencia
    \/ PasoRegistrarCalificacion
    \/ PasoGenerarAlertaPorAsistencia
    \/ DetectarAlertasTempranas

SpecEscrituras == InitEscrituras /\ [][NextEscrituras]_vars

\* ------------------------------------------------------------------------
\* Properties of the alert engine
\* ------------------------------------------------------------------------

MismaTupla(x, y) ==
    /\ x.estudiante = y.estudiante
    /\ x.curso = y.curso
    /\ x.asignatura = y.asignatura
    /\ x.origen = y.origen

AbiertaEnVentana(x, ahora) ==
    x.estado = "ABIERTA" /\ x.fecha_creacion >= ahora - VentanaDiasSinDuplicar

\* The open alerts of the tuple (e, c, a, o) created within the dedup window.
AbiertasEnVentana(tabla, ahora, e, c, a, o) ==
    {i \in DOMAIN tabla :
        /\ tabla[i].estudiante = e /\ tabla[i].curso = c
        /\ tabla[i].asignatura = a /\ tabla[i].origen = o
        /\ AbiertaEnVentana(tabla[i], ahora)}

\* C1: at every moment there is at most one alert in state ABIERTA per
\* (estudiante, curso, asignatura, origen) whose creation time lies within the
\* trailing dedup window of 15 days.
C1_UnaAbiertaPorTuplaEnVentana ==
    \A i, j \in DOMAIN alertas :
        (/\ i # j
         /\ MismaTupla(alertas[i], alertas[j])
         /\ AbiertaEnVentana(alertas[i], now)
         /\ AbiertaEnVentana(alertas[j], now)) => FALSE

\* Two open alerts of one tuple exist, the older one created before the
\* window of the newer one, and the last call of the service created an alert.
C1_Testigo ==
    /\ ult.op = "crear_alerta" /\ ult.ret # 0
    /\ \E i, j \in DOMAIN alertas :
          /\ i < j
          /\ MismaTupla(alertas[i], alertas[j])
          /\ alertas[i].estado = "ABIERTA" /\ alertas[j].estado = "ABIERTA"
          /\ alertas[j].fecha_creacion = now

\* C2: a call of the service made while an open alert of the same tuple
\* created within the window exists returns None and leaves the alerts, the
\* notifications and the mail queue as they were; a call that immediately
\* follows a successful call for the same tuple returns None and leaves
\* exactly one open alert of the tuple within the window.
C2_SuprimidaNoCambiaNada ==
    [][\A x \in ArgsCrear :
          CrearAlerta(x[1], x[2], x[3], x[4], x[5], x[6]) =>
             /\ (AbiertasEnVentana(alertas, now, x[1], x[2], x[3], x[4]) # {}) =>
                   /\ ult'.ret = 0
                   /\ alertas' = alertas
                   /\ notificaciones' = notificaciones
                   /\ emails' = emails
             /\ (/\ ult.op = "crear_alerta" /\ ult.ret # 0
                 /\ alertas[ult.ret].estudiante = x[1]
                 /\ alertas[ult.ret].curso = x[2]
                 /\ alertas[ult.ret].asignatura = x[3]
                 /\ alertas[ult.ret].origen = x[4]) =>
                   /\ ult'.ret = 0
                   /\ Cardinality(AbiertasEnVentana(alertas', now', x[1], x[2],
                                                    x[3], x[4])) = 1
      ]_vars

\* The last call of the service returned None and the tables hold what the
\* one successful call before it wrote: one open alert, one notification, one
\* queued mail.
C2_Testigo ==
    /\ ult.op = "crear_alerta" /\ ult.ret = 0
    /\ Len(alertas) = 1
    /\ alertas[1].estado = "ABIERTA"
    /\ Len(notificaciones) = 1 /\ Len(emails) = 1

\* C3: when calls of the alert service for one (estudiante, curso,
\* asignatura, origen) interleave, at most one alert in state ABIERTA of that
\* tuple created within the dedup window exists once the calls have returned.
C3_UnaAbiertaTrasLlamadasConcurrentes ==
    (\A w \in Workers : pc[w] = "libre") =>
        \A e \in Estudiantes, c \in Cursos, a \in Asignaturas \cup {None},
           o \in ORIGEN_CHOICES :
            Cardinality(AbiertasEnVentana(alertas, now, e, c, a, o)) <= 1

\* C4: closing an alert that is already CERRADA returns it with estado
\* CERRADA and the fecha_cierre of the first closing, and creates no
\* notification, whoever closes and however much time has passed.
C4_CerrarEsIdempotente ==
    [][\A i \in DOMAIN alertas, usuario \in Docentes :
          (CerrarAlerta(i, usuario) /\ alertas[i].estado = "CERRADA") =>
             /\ ult'.ret = i
             /\ alertas'[i].estado = "CERRADA"
             /\ alertas'[i].fecha_cierre = alertas[i].fecha_cierre
             /\ alertas' = alertas
             /\ notificaciones' = notificaciones
             /\ emails' = emails
      ]_vars

\* The last operation closed an alert that had been closed on an earlier day
\* by a user, who got one notification only.
C4_Testigo ==
    /\ ult.op = "cerrar_alerta"
    /\ alertas[ult.ret].estado = "CERRADA"
    /\ alertas[ult.ret].fecha_cierre < now
    /\ Len(alertas) = 1
    /\ Len(SelectSeq(notificaciones, LAMBDA m : m.title = "Alerta cerrada")) = 1

\* C5: CERRADA is a terminal state and fecha_cierre goes with it: under the
\* operations of the engine (the alert service, cerrar_alerta, the staleness
\* sweep, the attendance trigger and the periodic scan) an alert in state
\* CERRADA stays in state CERRADA, and in every reachable state fecha_cierre
\* is set exactly for the alerts in state CERRADA.
C5_CerradaEsTerminal ==
    /\ [](\A i \in DOMAIN alertas :
             (alertas[i].fecha_cierre # SinFecha) <=> (alertas[i].estado = "CERRADA"))
    /\ [][\A i \in DOMAIN alertas :
             alertas[i].estado = "CERRADA" =>
                /\ i \in DOMAIN alertas'
                /\ alertas'[i].estado = "CERRADA"
                /\ alertas'[i].fecha_cierre = alertas[i].fecha_cierre]_vars

\* The periodic scan has just created a new alert of a tuple that has a
\* closed alert, which stays closed with its closing date.
C5_Testigo ==
    /\ ult.op = "detectar_alertas_tempranas_task"
    /\ \E i, j \in DOMAIN alertas :
          /\ i < j
          /\ MismaTupla(alertas[i], alertas[j])
          /\ alertas[i].estado = "CERRADA"
          /\ alertas[i].fecha_cierre # SinFecha
          /\ alertas[j].estado = "ABIERTA"
          /\ alertas[j].fecha_creacion = now
          /\ alertas[j].fecha_creacion >= alertas[i].fecha_cierre

\* C6: the staleness sweep closes every alert that is ABIERTA and was
\* created at least 60 days before, stamping fecha_cierre with the time of
\* the sweep; every other alert is left as it was and nobody is notified.
\* After a sweep no alert of that age is ABIERTA.
C6_BarridoCierraViejas ==
    /\ [](ult.op = "cerrar_alertas_viejas_task" =>
            \A i \in DOMAIN alertas :
               ~(/\ alertas[i].estado = "ABIERTA"
                 /\ now - alertas[i].fecha_creacion >= DIAS_CIERRE_ALERTA))
    /\ [][CerrarAlertasViejas =>
            /\ Len(alertas') = Len(alertas)
            /\ \A i \in DOMAIN alertas :
                  IF /\ alertas[i].estado = "ABIERTA"
                     /\ now - alertas[i].fecha_creacion >= DIAS_CIERRE_ALERTA
                  THEN alertas'[i] = [alertas[i] EXCEPT !.estado = "CERRADA",
                                                        !.fecha_cierre = now]
                  ELSE alertas'[i] = alertas[i]
            /\ notificaciones' = notificaciones
            /\ emails' = emails
         ]_vars

\* A sweep has just closed an alert of 60 days and left alone an alert of the
\* same age that is EN_SEGUIMIENTO.
C6_Testigo ==
    /\ ult.op = "cerrar_alertas_viejas_task"
    /\ \E i, j \in DOMAIN alertas :
          /\ alertas[i].estado = "CERRADA"
          /\ alertas[i].fecha_cierre = now
          /\ now - alertas[i].fecha_creacion = DIAS_CIERRE_ALERTA
          /\ alertas[j].estado = "EN_SEGUIMIENTO"
          /\ now - alertas[j].fecha_creacion >= DIAS_CIERRE_ALERTA

\* ------------------------------------------------------------------------
\* Properties of the risk triggers
\* ------------------------------------------------------------------------

\* The attendance rows of a student and course dated within the 30 days that
\* end today, and how many of them there are.
FilasEnVentana(e, c) ==
    {f \in BagToSet(asistencias) :
        /\ f.estudiante = e /\ f.curso = c
        /\ now - f.fecha <= VentanaDiasAsistencia /\ f.fecha <= now}

RegistrosEnVentana(e, c) == SumaCopias(asistencias, FilasEnVentana(e, c))

AusenciasEnVentana(e, c) ==
    SumaCopias(asistencias,
               {f \in FilasEnVentana(e, c) : f.estado \in {"AUSENTE", "JUSTIFICADO"}})

\* The condition under which the trigger for (e, c) reaches the alert
\* service: a row in the window and an absence rate of at least `umbral` %.
Intenta(e, c, umbral) ==
    /\ RegistrosEnVentana(e, c) >= 1
    /\ AusenciasEnVentana(e, c) * 100 >= umbral * RegistrosEnVentana(e, c)

\* An open attendance alert of (e, c) created within the dedup window exists.
Repetida(e, c) == AbiertasEnVentana(alertas, now, e, c, None, "ASISTENCIA") # {}

AlertaDeAsistencia(x, e, c) ==
    /\ x.estudiante = e /\ x.curso = c /\ x.asignatura = None
    /\ x.origen = "ASISTENCIA" /\ x.estado = "ABIERTA"

\* C7: the attendance trigger for a student and course attempts an
\* attendance alert exactly when the student has at least one attendance row
\* in the trailing window and the absence rate is at least the threshold:
\* a call under that condition appends one attendance alert unless the dedup
\* rule suppresses it, and any other call writes nothing; with no row in the
\* window no alert is created, whatever the threshold.  The periodic scan
\* does the same for every student and course with the threshold 20.
C7_DisparoPorAsistencia ==
    [][/\ \A x \in ArgsAsistencia :
             GenerarAlertaPorAsistencia(x[1], x[2], x[3], x[4]) =>
                IF Intenta(x[1], x[2], x[3]) /\ ~Repetida(x[1], x[2])
                THEN /\ alertas' # alertas
                     /\ SubSeq(alertas', 1, Len(alertas)) = alertas
                     /\ Len(alertas') = Len(alertas) + 1
                     /\ AlertaDeAsistencia(alertas'[Len(alertas')], x[1], x[2])
                     /\ ult'.ret = Len(alertas')
                ELSE /\ alertas' = alertas
                     /\ notificaciones' = notificaciones
                     /\ emails' = emails
                     /\ ult'.ret = 0
       /\ DetectarAlertasTempranas =>
             LET nuevas == {par \in Estudiantes \X Cursos :
                               /\ Intenta(par[1], par[2], ALERTA_INASISTENCIA_PORCENTAJE)
                               /\ ~Repetida(par[1], par[2])}
                 creadas == (Len(alertas) + 1)..Len(alertas')
             IN  /\ SubSeq(alertas', 1, Len(alertas)) = alertas
                 /\ Cardinality(creadas) = Cardinality(nuevas)
                 /\ \A par \in nuevas : \E i \in creadas :
                       AlertaDeAsistencia(alertas'[i], par[1], par[2])
                 /\ \A par \in Estudiantes \X Cursos :
                       RegistrosEnVentana(par[1], par[2]) = 0 =>
                          \A i \in creadas : ~AlertaDeAsistencia(alertas'[i], par[1], par[2])
      ]_vars

\* The trigger has just created an alert for a student whose absence rate in
\* the window is exactly 20 %.
C7_Testigo ==
    /\ ult.op = "generar_alerta_por_asistencia" /\ ult.ret # 0
    /\ alertas[ult.ret].origen = "ASISTENCIA"
    /\ RegistrosEnVentana("e1", "c1") = 5
    /\ AusenciasEnVentana("e1", "c1") = 1

\* C8, as claimed: with 10 attendance rows in the window of which 3 are
\* absences, the alert the trigger creates has nivel_riesgo MEDIO.
C8_TreintaPorCientoEsMedio ==
    (/\ ult.op = "generar_alerta_por_asistencia" /\ ult.ret # 0
     /\ RegistrosEnVentana(alertas[ult.ret].estudiante, alertas[ult.ret].curso) = 10
     /\ AusenciasEnVentana(alertas[ult.ret].estudiante, alertas[ult.ret].curso) = 3)
    => alertas[ult.ret].nivel_riesgo = "MEDIO"

\* C8, amended: with 10 attendance rows in the window of which 3 are
\* absences, the alert the trigger creates has nivel_riesgo ALTO: a rate of
\* exactly 30 % is ALTO.
C8_TreintaPorCientoEsAlto ==
    (/\ ult.op = "generar_alerta_por_asistencia" /\ ult.ret # 0
     /\ RegistrosEnVentana(alertas[ult.ret].estudiante, alertas[ult.ret].curso) = 10
     /\ AusenciasEnVentana(alertas[ult.ret].estudiante, alertas[ult.ret].curso) = 3)
    => alertas[ult.ret].nivel_riesgo = "ALTO"

\* The trigger has just created an alert for a student with 10 rows in the
\* window, 3 of them absences.
C8_Testigo ==
    /\ ult.op = "generar_alerta_por_asistencia" /\ ult.ret # 0
    /\ alertas[ult.ret].origen = "ASISTENCIA"
    /\ RegistrosEnVentana(alertas[ult.ret].estudiante, alertas[ult.ret].curso) = 10
    /\ AusenciasEnVentana(alertas[ult.ret].estudiante, alertas[ult.ret].curso) = 3

\* The grades of a student in a course and subject.
NotasEnAlcance(e, c, a) ==
    {k \in calificaciones : /\ k.estudiante = e
                            /\ evaluacion_curso(k.evaluacion) = c
                            /\ evaluacion_asignatura(k.evaluacion) = a}

\* C9: the grade scan creates a grades alert for a (student, course, subject)
\* only when that scope holds at least 3 grades whose average is below 4.0,
\* with nivel_riesgo ALTO when the average is below 3.0 and MEDIO otherwise;
\* a scope with fewer than 3 grades never has a grades alert.
C9_AlertaDeNotasSoloConMinimo ==
    /\ [](\A i \in DOMAIN alertas :
             alertas[i].origen = "NOTAS" =>
                Cardinality(NotasEnAlcance(alertas[i].estudiante, alertas[i].curso,
                                           alertas[i].asignatura)) >= 3)
    /\ [][DetectarAlertasTempranas =>
             \A i \in (Len(alertas) + 1)..Len(alertas') :
                LET filas == NotasEnAlcance(alertas'[i].estudiante, alertas'[i].curso,
                                            alertas'[i].asignatura)
                    n == Cardinality(filas)
                IN  /\ alertas'[i].origen = "NOTAS"
                    /\ n >= 3
                    /\ SumaNotas(filas) < 40 * n
                    /\ alertas'[i].nivel_riesgo =
                          (IF SumaNotas(filas) < 30 * n THEN "ALTO" ELSE "MEDIO")
         ]_vars

\* The scan has just created a MEDIO alert for a student whose three grades
\* average exactly 3.0, and none for a student with two grades of 2.0.
C9_Testigo ==
    /\ ult.op = "detectar_alertas_tempranas_task"
    /\ Len(alertas) = 1
    /\ alertas[1].origen = "NOTAS" /\ alertas[1].estudiante = "e1"
    /\ alertas[1].nivel_riesgo = "MEDIO"
    /\ SumaNotas(NotasEnAlcance("e1", "c1", "a1")) = 90
    /\ Cardinality(NotasEnAlcance("e2", "c1", "a1")) = 2
    /\ SumaNotas(NotasEnAlcance("e2", "c1", "a1")) = 40

\* ------------------------------------------------------------------------
\* Properties of the notifications of an alert
\* ------------------------------------------------------------------------

\* C11: a call of the alert service that creates an alert appends, in the
\* same call, exactly one notification for the lead teacher of the course
\* when the course has one, of level URGENT for nivel_riesgo ALTO, WARN for
\* MEDIO and INFO for BAJO, and exactly one PENDIENTE mail to the teacher's
\* address if and only if the teacher has one; when the course has no lead
\* teacher the call appends no notification and no mail.
C11_NotificacionesDeAlertaNueva ==
    [][\A x \in ArgsNotificacion :
          (CrearAlerta(x[1], x[2], x[3], x[4], x[5], x[6]) /\ ult'.ret # 0) =>
             LET jefe == jefe_curso[x[2]]
                 level == CASE x[5] = "ALTO" -> "URGENT"
                            [] x[5] = "MEDIO" -> "WARN"
                            [] x[5] = "BAJO" -> "INFO"
             IN  /\ Len(alertas') = Len(alertas) + 1
                 /\ IF jefe = None
                    THEN /\ notificaciones' = notificaciones
                         /\ emails' = emails
                    ELSE /\ Len(notificaciones') = Len(notificaciones) + 1
                         /\ SubSeq(notificaciones', 1, Len(notificaciones)) = notificaciones
                         /\ notificaciones'[Len(notificaciones')].user = jefe
                         /\ notificaciones'[Len(notificaciones')].level = level
                         /\ IF email[jefe] = ""
                            THEN emails' = emails
                            ELSE /\ Len(emails') = Len(emails) + 1
                                 /\ SubSeq(emails', 1, Len(emails)) = emails
                                 /\ emails'[Len(emails')].destinatario = email[jefe]
                                 /\ emails'[Len(emails')].estado = "PENDIENTE"
      ]_vars

\* The service has just created an alert of nivel_riesgo BAJO in a course
\* whose lead teacher has no email address: one INFO notification, no mail.
C11_Testigo ==
    /\ ult.op = "crear_alerta" /\ ult.ret # 0
    /\ alertas[ult.ret].nivel_riesgo = "BAJO"
    /\ jefe_curso[alertas[ult.ret].curso] # None
    /\ email[jefe_curso[alertas[ult.ret].curso]] = ""
    /\ Len(alertas) = 1
    /\ Len(notificaciones) = 1 /\ notificaciones[1].level = "INFO"
    /\ emails = <<>>

\* ------------------------------------------------------------------------
\* Properties of the discipline trigger
\* ------------------------------------------------------------------------

\* The observations of gravedad ALTA of (e, c) recorded within the dedup
\* window.
ObservacionesGraves(e, c) ==
    {k \in DOMAIN observaciones :
        /\ observaciones[k].estudiante = e /\ observaciones[k].curso = c
        /\ observaciones[k].gravedad = "ALTA"
        /\ observaciones[k].fecha_registro >= now - VentanaDiasSinDuplicar}

\* C10: recording an observation of gravedad ALTA attempts an alert of origen
\* DISCIPLINA for its student and course through the dedup rule of the alert
\* service: right after an observation is recorded, a student and course
\* with observations of gravedad ALTA inside the dedup window, however many,
\* have exactly one alert of origen DISCIPLINA in state ABIERTA, and an
\* observation of gravedad BAJA or MEDIA creates no alert.
C10_UnaAlertaDeDisciplina ==
    /\ ult.op = "registrar_observacion" =>
          \A e \in Estudiantes, c \in Cursos :
              ObservacionesGraves(e, c) # {} =>
                  Cardinality(AbiertasEnVentana(alertas, now, e, c, None,
                                                "DISCIPLINA")) = 1
    /\ Len(alertas) <= Len(SelectSeq(observaciones, LAMBDA ob : ob.gravedad = "ALTA"))

\* ------------------------------------------------------------------------
\* Properties of the schedule conflict checker
\* ------------------------------------------------------------------------

\* The stored assignments other than the one with id `id` that are in the
\* period and block of h and have its room, its teacher, its course.
ChoquesPorSala(h, id) ==
    {j \in DOMAIN horarios : /\ j # id
                             /\ horarios[j].periodo = h.periodo
                             /\ horarios[j].bloque = h.bloque
                             /\ horarios[j].sala = h.sala}

ChoquesPorDocente(h, id) ==
    {j \in DOMAIN horarios : /\ j # id
                             /\ horarios[j].periodo = h.periodo
                             /\ horarios[j].bloque = h.bloque
                             /\ horarios[j].docente = h.docente}

ChoquesPorCurso(h, id) ==
    {j \in DOMAIN horarios : /\ j # id
                             /\ horarios[j].periodo = h.periodo
                             /\ horarios[j].bloque = h.bloque
                             /\ horarios[j].curso = h.curso}

\* C12: for every table of assignments and every candidate, the validation
\* fails if and only if some stored assignment other than the candidate
\* itself has the period and block of the candidate and its room, its
\* teacher or its course, and the conflicts found list every such assignment
\* under each axis on which it clashes, and nothing else.
C12_ValidacionFallaSiHayChoque ==
    ult.op = "validar_horario_sin_conflictos" =>
        /\ (ult.ret = 0) <=>
              (ChoquesPorSala(ult.horario, ult.id)
                  \cup ChoquesPorDocente(ult.horario, ult.id)
                  \cup ChoquesPorCurso(ult.horario, ult.id) # {})
        /\ ult.conflictos.sala = ChoquesPorSala(ult.horario, ult.id)
        /\ ult.conflictos.docente = ChoquesPorDocente(ult.horario, ult.id)
        /\ ult.conflictos.curso = ChoquesPorCurso(ult.horario, ult.id)

\* A stored assignment has just been validated against a table in which
\* another assignment has its room, period and block: the validation failed
\* and the room conflicts are that other assignment only.
C12_Testigo ==
    /\ ult.op = "validar_horario_sin_conflictos"
    /\ ult.id # 0
    /\ ult.ret = 0
    /\ Len(horarios) = 2
    /\ Cardinality(ult.conflictos.sala) = 1
    /\ ult.id \notin ult.conflictos.sala
    /\ ult.conflictos.docente = {}
    /\ ult.conflictos.curso = {}

\* C13: in every state reached by creating assignments, with the scheduling
\* service called with any arguments, by duplication as rotating, or through
\* the HorarioViewSet API, no two stored assignments share the same (sala,
\* bloque, periodo) or the same (docente, bloque, periodo).
C13_SinChoquesDeSalaNiDocente ==
    \A i, j \in DOMAIN horarios :
        (/\ i # j
         /\ horarios[i].bloque = horarios[j].bloque
         /\ horarios[i].periodo = horarios[j].periodo)
        => /\ horarios[i].sala # horarios[j].sala
           /\ horarios[i].docente # horarios[j].docente

\* C14: the conflict validation and the save of a call of the scheduling
\* service are atomic: once the calls of the workers have returned, however
\* they interleaved, no two of the assignments they saved share the same
\* (sala, bloque, periodo) or the same (docente, bloque, periodo).
C14_ValidarYGuardarSonAtomicos ==
    (\A w \in Workers : pc[w] = "libre") =>
        \A i, j \in DOMAIN horarios :
            (i < j /\ horarios[i].bloque = horarios[j].bloque
                   /\ horarios[i].periodo = horarios[j].periodo)
            => ~(\/ horarios[i].sala = horarios[j].sala
                 \/ horarios[i].docente = horarios[j].docente)

\* ------------------------------------------------------------------------
\* Properties of the life cycle of evaluations
\* ------------------------------------------------------------------------

\* The notifications of lateness stored for the evaluation ev.
AvisosDeAtraso(tabla, ev) ==
    Cardinality({i \in DOMAIN tabla : /\ tabla[i].title = "Evaluacion atrasada"
                                      /\ tabla[i].message = ev})

\* C15: publishing an evaluation that is already PUBLICADA changes nothing:
\* its state and its date of publication keep their values and no
\* notification and no mail is created, whoever publishes and whatever the
\* flags of notification.
C15_PublicarPublicadaNoCambiaNada ==
    [][\A ev \in Evaluaciones :
          (/\ ult'.op = "publicar_evaluacion"
           /\ ult'.evaluacion = ev
           /\ tabla_evaluacion[ev].estado = "PUBLICADA")
          => /\ tabla_evaluacion' = tabla_evaluacion
             /\ notificaciones' = notificaciones
             /\ emails' = emails]_vars

\* Evaluation ev1 was published on an earlier day and has been published
\* again today.
C15_Testigo ==
    /\ ult.op = "publicar_evaluacion"
    /\ ult.evaluacion = "ev1"
    /\ ult.ret = 1
    /\ tabla_evaluacion["ev1"].estado = "PUBLICADA"
    /\ tabla_evaluacion["ev1"].fecha_publicacion < now

C17_AtrasadaSoloSiPendienteYVencida ==
    [][ult'.op = "actualizar_estado_por_atraso" =>
          LET ev == ult'.evaluacion
              evaluacion == tabla_evaluacion[ev]
          IN  /\ notificaciones' = notificaciones
              /\ emails' = emails
              /\ tabla_evaluacion' =
                    IF /\ evaluacion.estado = "PENDIENTE"
                       /\ evaluacion.fecha_limite_publicacion < ult'.ref
                    THEN [tabla_evaluacion EXCEPT ![ev].estado = "ATRASADA"]
                    ELSE tabla_evaluacion]_vars

\* The limit of ev1 is today: checked against tomorrow it has been marked
\* ATRASADA, and nothing was notified.
C17_Testigo ==
    /\ ult.op = "actualizar_estado_por_atraso"
    /\ ult.evaluacion = "ev1"
    /\ ult.ref = now + 1
    /\ tabla_evaluacion["ev1"].fecha_limite_publicacion = now
    /\ tabla_evaluacion["ev1"].estado = "ATRASADA"
    /\ notificaciones = <<>>
    /\ emails = <<>>

\* C18: over any number of runs of the task, the notification of lateness of
\* an evaluation is created by the run that takes it from PENDIENTE to
\* ATRASADA and by no other run or operation, so at most one is ever stored:
\* a run that finds the evaluation ATRASADA or PUBLICADA creates none.
C18_AvisoDeAtrasoUnaVez ==
    /\ [][\A ev \in Evaluaciones :
             AvisosDeAtraso(notificaciones', ev) - AvisosDeAtraso(notificaciones, ev)
                = IF /\ ult'.op = "controlar_atrasos_evaluaciones_task"
                     /\ tabla_evaluacion[ev].estado = "PENDIENTE"
                     /\ tabla_evaluacion'[ev].estado = "ATRASADA"
                  THEN 1 ELSE 0]_vars
    /\ [](\A ev \in Evaluaciones : AvisosDeAtraso(notificaciones, ev) <= 1)

\* A run of the task has found ev1 and ev2 ATRASADA, both notified by an
\* earlier run, and has created nothing.
C18_Testigo ==
    /\ ult.op = "controlar_atrasos_evaluaciones_task"
    /\ ult.ret = 0
    /\ tabla_evaluacion["ev1"].estado = "ATRASADA"
    /\ tabla_evaluacion["ev2"].estado = "ATRASADA"
    /\ Len(notificaciones) = 2
    /\ AvisosDeAtraso(notificaciones, "ev1") = 1
    /\ AvisosDeAtraso(notificaciones, "ev2") = 1

\* ------------------------------------------------------------------------
\* Properties of the final averages
\* ------------------------------------------------------------------------

\* C19: the recomputation of final averages is idempotent: run again right
\* after a run for the same course, subject and period, with the same
\* passing grade and the grades and the roster unchanged, it leaves the rows
\* of PromedioFinal as they were: same averages, same flags, no new row.
C19_RecalcularEsIdempotente ==
    [][(/\ ult.op = "recalcular_promedios_finales_curso_asignatura"
        /\ ult'.op = "recalcular_promedios_finales_curso_asignatura"
        /\ ult'.curso = ult.curso
        /\ ult'.asignatura = ult.asignatura
        /\ ult'.periodo = ult.periodo)
       => promedios_finales' = promedios_finales]_vars

\* The averages of subject a1 have just been recomputed: e1, with grades
\* 3.5, 3.5 and 4.5, has the average 3.83 and has not passed; e2 has a row
\* too.
C19_Testigo ==
    /\ ult.op = "recalcular_promedios_finales_curso_asignatura"
    /\ ult.asignatura = "a1"
    /\ Len(promedios_finales) = 2
    /\ \E i \in DOMAIN promedios_finales :
          /\ promedios_finales[i].estudiante = "e1"
          /\ promedios_finales[i].promedio = 383
          /\ ~promedios_finales[i].aprobado
    /\ \E i \in DOMAIN promedios_finales : promedios_finales[i].estudiante = "e2"

\* C20: in every state reached by recomputations with the passing grade of
\* the institution and by report generations, in any order, there is at most
\* one row of PromedioFinal per student, course, subject and period, and
\* every row has aprobado exactly when its promedio reaches that passing
\* grade.
C20_UnaFilaPorClaveConUmbralConfigurado ==
    /\ \A i, j \in DOMAIN promedios_finales :
          (/\ promedios_finales[i].estudiante = promedios_finales[j].estudiante
           /\ promedios_finales[i].curso = promedios_finales[j].curso
           /\ promedios_finales[i].asignatura = promedios_finales[j].asignatura
           /\ promedios_finales[i].periodo = promedios_finales[j].periodo)
          => i = j
    /\ \A i \in DOMAIN promedios_finales :
          promedios_finales[i].aprobado
             <=> (promedios_finales[i].promedio >= 10 * nota_aprobacion)

\* The rows of ReporteNotasPeriodo of a course, subject and period.
ReportesDe(tabla, curso, asignatura, periodo) ==
    {i \in DOMAIN tabla : /\ tabla[i].curso = curso
                          /\ tabla[i].asignatura = asignatura
                          /\ tabla[i].periodo = periodo}

\* C21: the report generator, run for a course, subject and period without
\* any grade, returns None and leaves the reports and the final averages as
\* they were; run with at least one grade, it returns the report and leaves
\* exactly one report of that course, subject and period, however many runs
\* came before.
C21_ReporteSoloConNotas ==
    [][ult'.op = "generar_reporte_notas_curso_asignatura_periodo" =>
          IF \E k \in calificaciones :
                /\ evaluacion_curso(k.evaluacion) = ult'.curso
                /\ evaluacion_asignatura(k.evaluacion) = ult'.asignatura
                /\ evaluacion_periodo(k.evaluacion) = ult'.periodo
          THEN /\ ult'.ret = 1
               /\ Cardinality(ReportesDe(reportes', ult'.curso, ult'.asignatura,
                                         ult'.periodo)) = 1
          ELSE /\ ult'.ret = 0
               /\ reportes' = reportes
               /\ promedios_finales' = promedios_finales]_vars

\* The report of subject a2, which has no grade, has just returned None; the
\* report of a1 and its averages, written before, are all there is.
C21_Testigo ==
    /\ ult.op = "generar_reporte_notas_curso_asignatura_periodo"
    /\ ult.asignatura = "a2"
    /\ ult.ret = 0
    /\ Len(reportes) = 1
    /\ reportes[1].asignatura = "a1"
    /\ Len(promedios_finales) = 2
    /\ \A i \in DOMAIN promedios_finales : promedios_finales[i].asignatura = "a1"

\* C22: after the reports of a period have been generated, a report of a
\* course, a subject and that period exists exactly when some grade is
\* recorded in an evaluation of that course, that subject and that period.
C22_ReportePorCadaParConNotas ==
    ult.op = "generar_reportes_para_periodo" =>
        \A c \in Cursos, a \in Asignaturas :
            (ReportesDe(reportes, c, a, ult.periodo) # {})
            <=> (\E k \in calificaciones :
                    /\ evaluacion_curso(k.evaluacion) = c
                    /\ evaluacion_asignatura(k.evaluacion) = a
                    /\ evaluacion_periodo(k.evaluacion) = ult.periodo)

\* ------------------------------------------------------------------------
\* Properties of the mail queue
\* ------------------------------------------------------------------------

\* C23: in a run of the task every selected PENDIENTE mail makes exactly one
\* transition, to ENVIADO when its send succeeds and to FALLIDO, with the
\* error recorded, when it raises; a send that raises does not keep the
\* other mails of the batch from being processed (when the batch has room
\* for all the PENDIENTE mails none stays PENDIENTE); and mails that are
\* ENVIADO or FALLIDO are left as they are.
C23_UnaTransicionPorCorreo ==
    [][ult'.op = "procesar_email_queue_task" =>
          /\ DOMAIN emails' = DOMAIN emails
          /\ \A i \in DOMAIN emails :
                IF emails[i].estado # "PENDIENTE" THEN emails'[i] = emails[i]
                ELSE \/ emails'[i] = emails[i]
                     \/ /\ i \notin ult'.fallan
                        /\ emails'[i].estado = "ENVIADO"
                        /\ emails'[i].ultimo_error = ""
                        /\ emails'[i].intentos = emails[i].intentos + 1
                     \/ /\ i \in ult'.fallan
                        /\ emails'[i].estado = "FALLIDO"
                        /\ emails'[i].ultimo_error # ""
                        /\ emails'[i].intentos = emails[i].intentos + 1
          /\ Cardinality({i \in DOMAIN emails : emails[i].estado = "PENDIENTE"})
                <= ult'.max_emails
             => \A i \in DOMAIN emails' : emails'[i].estado # "PENDIENTE"
          /\ Cardinality({i \in DOMAIN emails : /\ emails[i].estado = "PENDIENTE"
                                                /\ emails'[i].estado # "PENDIENTE"})
                <= ult'.max_emails]_vars

\* A run has processed three mails: the send of the newest raised, and the
\* two older ones were sent all the same.
C23_Testigo ==
    /\ ult.op = "procesar_email_queue_task"
    /\ ult.fallan = {3}
    /\ Len(emails) = 3
    /\ emails[3].estado = "FALLIDO"
    /\ emails[3].ultimo_error # ""
    /\ emails[1].estado = "ENVIADO"
    /\ emails[2].estado = "ENVIADO"
    /\ \A i \in DOMAIN emails : emails[i].intentos = 1

\* C24: the task retries a mail whose send failed, up to 3 attempts: a run
\* whose batch has room attempts again every mail that is FALLIDO after
\* fewer than 3 attempts, and no mail is ever attempted more than 3 times.
C24_ReintentoHastaTresVeces ==
    [][ult'.op = "procesar_email_queue_task" =>
          /\ \A i \in DOMAIN emails :
                (/\ emails[i].estado = "FALLIDO"
                 /\ emails[i].intentos < 3
                 /\ Cardinality(Pendientes(emails)) < ult'.max_emails)
                => emails'[i].intentos = emails[i].intentos + 1
          /\ \A i \in DOMAIN emails' : emails'[i].intentos <= 3]_vars

\* C29: the task never sends a mail before its enviar_despues_de: a PENDIENTE
\* mail whose enviar_despues_de is in the future is left as it is by every
\* run.
C29_NoSeEnviaAntesDeTiempo ==
    [][ult'.op = "procesar_email_queue_task" =>
          \A i \in DOMAIN emails :
              (/\ emails[i].estado = "PENDIENTE"
               /\ emails[i].enviar_despues_de # SinFecha
               /\ emails[i].enviar_despues_de > now)
              => emails'[i] = emails[i]]_vars

\* C25: a request to publish an evaluation through the API made by a logged-in
\* user whose role is none of DOCENTE, ADMIN and DIRECTOR, a superuser without
\* role included, is answered 403 and changes nothing: the state and the date
\* of publication of the evaluation keep their values (a date never set stays
\* unset) and no notification and no mail is created.
C25_PublicarSinRolEsRechazado ==
    [][\A ev \in Evaluaciones :
          (/\ ult'.op = "api_publicar"
           /\ ult'.evaluacion = ev
           /\ ult'.user.is_authenticated
           /\ ult'.user.role \notin {"DOCENTE", "ADMIN", "DIRECTOR"})
          => /\ ult'.ret = 403
             /\ tabla_evaluacion'[ev].estado = tabla_evaluacion[ev].estado
             /\ tabla_evaluacion'[ev].fecha_publicacion
                    = tabla_evaluacion[ev].fecha_publicacion
             /\ tabla_evaluacion[ev].fecha_publicacion = SinFecha
                    => tabla_evaluacion'[ev].fecha_publicacion = SinFecha
             /\ tabla_evaluacion' = tabla_evaluacion
             /\ notificaciones' = notificaciones
             /\ emails' = emails]_vars

\* A superuser without role has asked to publish evaluation ev1, which can be
\* published, and was refused: ev1 is still PENDIENTE, without date of
\* publication.
C25_Testigo ==
    /\ ult.op = "api_publicar"
    /\ ult.evaluacion = "ev1"
    /\ ult.user.is_authenticated
    /\ ult.user.is_superuser
    /\ ult.user.role = None
    /\ ult.ret = 403
    /\ tabla_evaluacion["ev1"].estado = "PENDIENTE"
    /\ tabla_evaluacion["ev1"].fecha_publicacion = SinFecha
    /\ validar_fechas_evaluacion(tabla_evaluacion["ev1"])

PromediosDe(tabla, estudiante, curso, asignatura, periodo) ==
    {i \in DOMAIN tabla : /\ tabla[i].estudiante = estudiante
                          /\ tabla[i].curso = curso
                          /\ tabla[i].asignatura = asignatura
                          /\ tabla[i].periodo = periodo}

\* C27: right after a recomputation for a course, subject and period, every
\* student of the course with a grade in that scope has a row of PromedioFinal
\* holding the mean of those grades (as the column stores it, in hundredths),
\* and a student of the course without any grade in that scope has no row of
\* that scope.
C27_PromediosSiguenLasNotas ==
    ult.op = "recalcular_promedios_finales_curso_asignatura" =>
        \A e \in Estudiantes :
            LET filas == NotasDelPeriodo(calificaciones, e, ult.curso, ult.asignatura,
                                         ult.periodo)
                promedios == PromediosDe(promedios_finales, e, ult.curso, ult.asignatura,
                                         ult.periodo)
            IN  IF filas # {}
                THEN /\ promedios # {}
                     /\ \A i \in promedios :
                           promedios_finales[i].promedio
                              = PromedioGuardado(SumaNotas(filas), Cardinality(filas))
                ELSE promedios = {}

\* ------------------------------------------------------------------------
\* The dedup rule and the states of an alert
\* ------------------------------------------------------------------------

\* C28: a call of the alert service for a tuple none of whose alerts created
\* within the dedup window is ABIERTA creates a new ABIERTA alert of the tuple
\* and notifies the head teacher of the course, by notification and by mail,
\* whatever alerts of the tuple in state EN_SEGUIMIENTO or CERRADA were
\* created within the window.
C28_SoloLasAbiertasSuprimen ==
    [][\A x \in ArgsCrear :
          (/\ CrearAlerta(x[1], x[2], x[3], x[4], x[5], x[6])
           /\ AbiertasEnVentana(alertas, now, x[1], x[2], x[3], x[4]) = {})
          => /\ ult'.ret = Len(alertas) + 1
             /\ Len(alertas') = Len(alertas) + 1
             /\ alertas'[Len(alertas')].estado = "ABIERTA"
             /\ alertas'[Len(alertas')].fecha_creacion = now
             /\ alertas'[Len(alertas')].estudiante = x[1]
             /\ alertas'[Len(alertas')].curso = x[2]
             /\ alertas'[Len(alertas')].asignatura = x[3]
             /\ alertas'[Len(alertas')].origen = x[4]
             /\ Len(notificaciones') = Len(notificaciones) + 1
             /\ Len(emails') = Len(emails) + 1]_vars

\* The service has just created an ABIERTA alert of a tuple that has an older
\* alert EN_SEGUIMIENTO created within the dedup window: the two coexist.
C28_Testigo ==
    /\ ult.op = "crear_alerta"
    /\ ult.ret = Len(alertas)
    /\ \E i, j \in DOMAIN alertas :
          /\ i < j
          /\ j = Len(alertas)
          /\ MismaTupla(alertas[i], alertas[j])
          /\ alertas[i].estado = "EN_SEGUIMIENTO"
          /\ alertas[i].fecha_creacion >= now - VentanaDiasSinDuplicar
          /\ alertas[j].estado = "ABIERTA"
          /\ alertas[j].fecha_creacion = now

\* ------------------------------------------------------------------------
\* Properties of the login lockout
\* ------------------------------------------------------------------------

\* C30: the lockout of the login is temporary. A login request made with
\* MAX_INTENTOS_FALLIDOS failed logins in a row on record and the time of
\* blocked_until not yet reached is refused; a login that succeeds leaves the
\* count of failed logins at 0; and a login request with the right password
\* made once the time of blocked_until has been reached succeeds, no
\* administrator having unblocked the account.
C30_BloqueoEsTemporal ==
    [][ult'.op = "login" =>
          /\ (/\ tabla_user.failed_attempts >= MAX_INTENTOS_FALLIDOS
              /\ is_temporarily_blocked(tabla_user, reloj))
             => ult'.ret = 403
          /\ ult'.ret = 200 => tabla_user'.failed_attempts = 0
          /\ (/\ ult'.password_ok
              /\ tabla_user.blocked_until # SinFecha
              /\ reloj >= tabla_user.blocked_until)
             => ult'.ret = 200]_vars

====
